---- MODULE Spec2Model ----
(***************************************************************************)
(* GitLab inventory scripts (scripts/gitlab-details.py and                 *)
(* scripts/gitlab-groups.py): the paginated listing traversal              *)
(* (fetch_all_groups, fetch_all_projects) and the main run of both         *)
(* scripts (configuration, discovery, filtering, aggregation, report).     *)
(*                                                                         *)
(* Python values: None is the empty tuple and a present value x is <<x>>   *)
(* (None / Some), a dict is a record or a set of <<key, value>> pairs, a   *)
(* str that the code trims is a tuple of one-character strings.            *)
(***************************************************************************)
EXTENDS Integers, Sequences, FiniteSets, TLC

VARIABLES
    \* ---- one call of a listing function (SpecFetch) ----
    fn,           \* the function called: "fetch_all_groups" or "fetch_all_projects"
    srv,          \* the server behind the listing endpoint
    all_items,    \* all_groups / all_projects, the accumulator of the call
    page,         \* the page the next request asks for
    response,     \* the answer to the last request
    reqlog,       \* the page requests issued by the call: <<page, fault>>, in order
    fpc,          \* "request", "handle" while the call runs, then "returned"
    result        \* the value returned: None or Some(list)

fetchVars == <<fn, srv, all_items, page, response, reqlog, fpc, result>>

VARIABLES
    \* ---- one run of a script (Spec) ----
    script,               \* "details" (gitlab-details.py) or "groups" (gitlab-groups.py)
    pc,                   \* where the run is
    GITLAB_TOKEN,         \* None or Some(token)
    PROJECT_LIST_FILE,    \* None or Some(file name)
    MIGRATE_REPO_VALUES,  \* list of str
    csvFile,              \* the project-list file (SpecFilter)
    project_filter,       \* None or Some(set of names)
    groups,               \* what fetch_all_groups returned: None or Some(list)
    gi,                   \* number of groups whose projects were asked for
    listed,               \* what fetch_all_projects returned, per group asked
    all_projects,         \* the projects discovered, tagged with their group
    projects,             \* the projects to aggregate
    idx,                  \* number of entities the aggregation loop has handled
    lookups,              \* number of auxiliary lookups the loop has started
    stats,                \* the records built
    failed,               \* failed_projects / failed_groups
    outputFile,           \* OUTPUT_FILE on disk: None or Some(content)
    writes,               \* number of times OUTPUT_FILE was opened for writing
    exitCode              \* None while running, Some(code) after the exit

runVars == <<script, pc, GITLAB_TOKEN, PROJECT_LIST_FILE, MIGRATE_REPO_VALUES,
             csvFile, project_filter, groups, gi, listed, all_projects,
             projects, idx, lookups, stats, failed, outputFile, writes,
             exitCode>>

VARIABLES
    \* ---- one call of a function on its own (SpecCall) ----
    call,         \* the function called
    args,         \* its arguments and the answers its requests get
    ret           \* None while it runs, Some(what it returned) after

callVars == <<call, args, ret>>

vars == <<fetchVars, runVars, callVars>>

----------------------------------------------------------------------------
(* Bounds of the model *)

\* longest collection a listing endpoint holds
MaxLen == 3
\* the server cuts a collection into pages of 1..MaxPageSize items
MaxPageSize == 2
\* most projects the listing of the top-level group holds
MaxProjects == 3
\* most rows of the project-list file
MaxRows == 2
\* cap of the number of requests of the unbounded `while True` loop; a paged
\* server is done after at most MaxLen + 1 requests
MaxRequests == MaxLen + 2
MaxPage == MaxLen + 2
MaxItems == MaxLen + MaxPageSize

----------------------------------------------------------------------------
(* Python values *)

None == <<>>
Some(x) == <<x>>
IsNone(v) == v = <<>>
Val(v) == v[1]

Min(a, b) == IF a < b THEN a ELSE b

\* `name in response.headers`
HeaderIn(name, headers) == \E h \in headers : h[1] = name
\* `response.headers[name]`
Header(name, headers) == (CHOOSE h \in headers : h[1] = name)[2]

\* dict.get(key, default)
Get(d, key, default) == IF key \in DOMAIN d THEN d[key] ELSE default

----------------------------------------------------------------------------
(* The server of a listing endpoint *)

\* the item identifiers a collection is made of
ItemIds == 1..3

BoundedSeq(S, n) == UNION {[1..k -> S] : k \in 0..n}

\* number of pages of a collection of n items cut by ps
NumPages(n, ps) == (n + ps - 1) \div ps

\* page p of collection coll cut into pages of ps items
PageOf(coll, ps, p) ==
    IF (p - 1) * ps + 1 > Len(coll) THEN <<>>
    ELSE SubSeq(coll, (p - 1) * ps + 1, Min(p * ps, Len(coll)))

\* The X-Next-Page header of page p of a paged server. A page followed by a
\* non-empty page names it. The final page has no such header
\* (lastHdr = "absent"), has it empty, as GitLab does ("empty"), or names a
\* next page, which is then served empty ("next").
PagedHeaders(s, p) ==
    IF p * s.ps < Len(s.coll) THEN {<<"X-Next-Page", ToString(p + 1)>>}
    ELSE IF PageOf(s.coll, s.ps, p) = <<>> THEN {}
    ELSE IF s.lastHdr = "next" THEN {<<"X-Next-Page", ToString(p + 1)>>}
    ELSE IF s.lastHdr = "empty" THEN {<<"X-Next-Page", "">>}
    ELSE {}

\* What the server sends for page p when the request brings an answer.
\* kind "paged": one finite ordered collection served as consecutive pages.
\* kind "endless": a server that ignores the page parameter, so every request
\* gets the first page and a next-page header.
ServerPage(s, p) ==
    IF s.kind = "endless"
    THEN [body |-> PageOf(s.coll, s.ps, 1),
          headers |-> {<<"X-Next-Page", ToString(p + 1)>>}]
    ELSE [body |-> PageOf(s.coll, s.ps, p), headers |-> PagedHeaders(s, p)]

\* what can go wrong with one request
Faults == {"none", "non200", "Timeout", "ConnectionError", "ValueError"}

\* The outcome of requests.get(...) followed by response.json(): exc is the
\* exception raised ("none" if none; "ValueError" is raised by json() on a
\* body that is no JSON).
Answer(s, p, fault) ==
    IF fault \in {"Timeout", "ConnectionError"}
    THEN [exc |-> fault, status_code |-> 0, body |-> <<>>, headers |-> {}]
    ELSE IF fault = "non200"
    THEN [exc |-> "none", status_code |-> 500, body |-> <<>>, headers |-> {}]
    ELSE [exc |-> IF fault = "ValueError" THEN fault ELSE "none",
          status_code |-> 200,
          body |-> ServerPage(s, p).body,
          headers |-> ServerPage(s, p).headers]

NoResponse == [exc |-> "none", status_code |-> 0, body |-> <<>>, headers |-> {}]

Servers ==
    [kind : {"paged"}, coll : BoundedSeq(ItemIds, MaxLen), ps : 1..MaxPageSize,
     lastHdr : {"absent", "empty", "next"}]
    \cup
    [kind : {"endless"}, coll : BoundedSeq(ItemIds, MaxLen) \ {<<>>},
     ps : 1..MaxPageSize, lastHdr : {"next"}]

----------------------------------------------------------------------------
(* Strings the code trims or tests for emptiness: tuples of tokens, " " being
   white space *)

RECURSIVE LStrip(_)
LStrip(str) ==
    IF str # <<>> /\ Head(str) = " " THEN LStrip(Tail(str)) ELSE str

RECURSIVE RStrip(_)
RStrip(str) ==
    IF str # <<>> /\ str[Len(str)] = " "
    THEN RStrip(SubSeq(str, 1, Len(str) - 1))
    ELSE str

\* str.strip()
Strip(str) == RStrip(LStrip(str))

\* truth value of an optional str: None and '' are false
Truthy(opt) == ~IsNone(opt) /\ Val(opt) # <<>>

SeqToSet(q) == {q[i] : i \in 1..Len(q)}

----------------------------------------------------------------------------
(* Configuration Section of both scripts *)

\* the GITLAB_TOKEN environment variable
EnvTokens == {None, Some(<<>>), Some(<<"glpat">>)}

\* The .token file: missing, not JSON, or a JSON object whose keys may be
\* absent (None). migrate_repo_values is a list, a str or something else.
TokenFiles ==
    [state : {"missing", "invalid"}, token : {None},
     project_list_file : {None}, migrate_repo_values : {None}]
    \cup
    [state : {"json"},
     token : {None, Some(<<>>), Some(<<"glpat">>)},
     project_list_file : {None, Some(<<"projects.csv">>)},
     migrate_repo_values : {None, Some([type |-> "str", val |-> <<"Yes">>])}]
    \cup
    [state : {"json"}, token : {Some(<<"glpat">>)},
     project_list_file : {Some(<<"projects.csv">>)},
     migrate_repo_values :
        {Some([type |-> "list", val |-> <<<<"Migrate">>, <<"Yes">>>>]),
         Some([type |-> "other", val |-> <<>>])}]

\* MIGRATE_REPO_VALUES as the token file sets it
MigrateValuesOf(tf) ==
    IF IsNone(tf.migrate_repo_values) THEN <<<<"Migrate">>>>
    ELSE IF Val(tf.migrate_repo_values).type = "list"
    THEN Val(tf.migrate_repo_values).val
    ELSE IF Val(tf.migrate_repo_values).type = "str"
    THEN <<Val(tf.migrate_repo_values).val>>
    ELSE <<>>

ConfigExit == [exit |-> Some(1), token |-> None, plf |-> None, mrv |-> <<>>]

\* gitlab-details.py, from the start to the token validation. With the token
\* in the environment the settings of the token file are still read, and a
\* file that cannot be read leaves the defaults. The try statement of lines
\* 100-133 has no except clause in the source; it is read with the clause its
\* last comment describes ("If we can't read the file, use defaults"), the
\* place gitlab-groups.py has its `except: pass`.
details_config(env, tf) ==
    LET c ==
        IF ~Truthy(env)
        THEN IF tf.state = "missing" THEN ConfigExit
             ELSE IF tf.state = "invalid" THEN ConfigExit
             ELSE [exit |-> None, token |-> tf.token,
                   plf |-> tf.project_list_file, mrv |-> MigrateValuesOf(tf)]
        ELSE IF tf.state = "json"
             THEN [exit |-> None, token |-> env,
                   plf |-> tf.project_list_file, mrv |-> MigrateValuesOf(tf)]
             ELSE IF tf.state = "invalid"
             THEN [exit |-> None, token |-> env, plf |-> None,
                   mrv |-> <<<<"Migrate">>>>]
             ELSE [exit |-> None, token |-> env, plf |-> None, mrv |-> <<>>]
    IN  IF IsNone(c.exit) /\ ~Truthy(c.token)
        THEN [c EXCEPT !.exit = Some(1)]
        ELSE c

\* gitlab-groups.py, from the start to the token validation
groups_config(env, tf) ==
    LET c ==
        IF ~Truthy(env)
        THEN IF tf.state = "missing" THEN ConfigExit
             ELSE IF tf.state = "invalid" THEN ConfigExit
             ELSE [exit |-> None, token |-> tf.token, plf |-> None, mrv |-> <<>>]
        ELSE [exit |-> None, token |-> env, plf |-> None, mrv |-> <<>>]
    IN  IF IsNone(c.exit) /\ ~Truthy(c.token)
        THEN [c EXCEPT !.exit = Some(1)]
        ELSE c

----------------------------------------------------------------------------
(* Project Filtering *)

\* The project-list file in the data folder: absent, unreadable, or a CSV
\* file with its header and its rows.
NoCsv == [state |-> "unread", fieldnames |-> {}, rows |-> <<>>]

CsvRow(migrate, name) == [migrate |-> migrate, name |-> name]

\* the cells of the two columns: with and without white space around them
MigrateCells == {<<"Migrate">>, <<" ", "Migrate", " ">>, <<"Skip">>}
NameCells == {<<"a">>, <<" ", "c">>, <<"zz">>, <<" ">>}

CsvFiles ==
    {[state |-> "missing", fieldnames |-> {}, rows |-> <<>>],
     [state |-> "unreadable", fieldnames |-> {}, rows |-> <<>>],
     [state |-> "csv", fieldnames |-> {"Name", "Owner"},
      rows |-> <<CsvRow(<<"Migrate">>, <<"a">>)>>],
     [state |-> "csv", fieldnames |-> {"Migrate Repo", "Owner"},
      rows |-> <<CsvRow(<<"Migrate">>, <<"a">>)>>]}
    \cup
    [state : {"csv"}, fieldnames : {{"Name", "Migrate Repo", "Owner"}},
     rows : BoundedSeq([migrate : MigrateCells, name : NameCells], MaxRows)]

\* the loop over the rows without the strip() of the 'Name' cell
FilterNames_Untrimmed(mrv, f) ==
    {f.rows[i].name : i \in
        {j \in 1..Len(f.rows) :
            /\ Strip(f.rows[j].migrate) \in SeqToSet(mrv)
            /\ Strip(f.rows[j].name) # <<>>}}

\* the names the rows of a readable file contribute
FilterNames(mrv, f) ==
    {Strip(f.rows[i].name) : i \in
        {j \in 1..Len(f.rows) :
            /\ Strip(f.rows[j].migrate) \in SeqToSet(mrv)
            /\ Strip(f.rows[j].name) # <<>>}}

\* load_project_filter without the test for an empty set
load_project_filter_KeepsEmpty(plf, mrv, f) ==
    IF ~Truthy(plf) THEN None
    ELSE IF f.state = "missing" THEN None
    ELSE IF f.state = "unreadable" THEN None
    ELSE IF "Migrate Repo" \notin f.fieldnames \/ "Name" \notin f.fieldnames
    THEN None
    ELSE Some(FilterNames(mrv, f))

load_project_filter(plf, mrv, f) ==
    IF ~Truthy(plf) THEN None
    ELSE IF f.state = "missing" THEN None
    ELSE IF f.state = "unreadable" THEN None
    ELSE IF "Migrate Repo" \notin f.fieldnames \/ "Name" \notin f.fieldnames
    THEN None
    ELSE IF Cardinality(FilterNames(mrv, f)) = 0 THEN None
    ELSE Some(FilterNames(mrv, f))

\* should_process_project that looks at the name only
should_process_project_NameOnly(project, pfilter) ==
    IF IsNone(pfilter) THEN TRUE
    ELSE project.name \in Val(pfilter)

\* should_process_project
should_process_project(project, pfilter) ==
    IF IsNone(pfilter) THEN TRUE
    ELSE project.name \in Val(pfilter) \/ project.path \in Val(pfilter)

----------------------------------------------------------------------------
(* fetch_all_groups / fetch_all_projects *)

\* ListingIter with the next-page test made before the page is added
ListingIter_DropsLastPage(acc, pg, r) ==
    IF r.exc # "none" \/ r.status_code # 200
    THEN [ctl |-> "return None", acc |-> acc, page |-> pg]
    ELSE IF r.body = <<>>
    THEN [ctl |-> "break", acc |-> acc, page |-> pg]
    ELSE IF HeaderIn("X-Next-Page", r.headers)
            /\ Header("X-Next-Page", r.headers) # ""
    THEN [ctl |-> "continue", acc |-> acc \o r.body, page |-> pg + 1]
    ELSE [ctl |-> "break", acc |-> acc, page |-> pg]

\* ListingIter that returns what it has when a request fails
ListingIter_PartialOnFailure(acc, pg, r) ==
    IF r.exc # "none" \/ r.status_code # 200
    THEN [ctl |-> "break", acc |-> acc, page |-> pg]
    ELSE IF r.body = <<>>
    THEN [ctl |-> "break", acc |-> acc, page |-> pg]
    ELSE IF HeaderIn("X-Next-Page", r.headers)
            /\ Header("X-Next-Page", r.headers) # ""
    THEN [ctl |-> "continue", acc |-> acc \o r.body, page |-> pg + 1]
    ELSE [ctl |-> "break", acc |-> acc \o r.body, page |-> pg]

\* ListingIter that goes on after an empty page
ListingIter_IgnoresEmptyPage(acc, pg, r) ==
    IF r.exc # "none" \/ r.status_code # 200
    THEN [ctl |-> "return None", acc |-> acc, page |-> pg]
    ELSE IF HeaderIn("X-Next-Page", r.headers)
            /\ Header("X-Next-Page", r.headers) # ""
    THEN [ctl |-> "continue", acc |-> acc \o r.body, page |-> pg + 1]
    ELSE IF r.body = <<>>
    THEN [ctl |-> "continue", acc |-> acc, page |-> pg + 1]
    ELSE [ctl |-> "break", acc |-> acc \o r.body, page |-> pg]

\* One iteration of the `while True` loop after the request was answered by r:
\* ctl is "return None", "break" or "continue".
ListingIter(acc, pg, r) ==
    IF r.exc \in {"Timeout", "ConnectionError"}
    THEN [ctl |-> "return None", acc |-> acc, page |-> pg]
    ELSE IF r.status_code # 200
    THEN [ctl |-> "return None", acc |-> acc, page |-> pg]
    ELSE IF r.exc # "none"
    THEN [ctl |-> "return None", acc |-> acc, page |-> pg]
    ELSE IF r.body = <<>>
    THEN [ctl |-> "break", acc |-> acc, page |-> pg]
    ELSE IF HeaderIn("X-Next-Page", r.headers)
            /\ Header("X-Next-Page", r.headers) # ""
    THEN [ctl |-> "continue", acc |-> acc \o r.body, page |-> pg + 1]
    ELSE [ctl |-> "break", acc |-> acc \o r.body, page |-> pg]

\* A call against a server that never ends the listing has no last request.
\* Of such a call the model keeps the last MaxRequests requests, the first
\* MaxItems items and the page number up to MaxPage; a call against a paged
\* server stays below the three.
Window(log) == IF Len(log) > MaxRequests THEN Tail(log) ELSE log

Kept(items) == SubSeq(items, 1, Min(Len(items), MaxItems))

\* response = requests.get(url, headers=headers, params=params, timeout=30)
SendRequest(fault) ==
    /\ fpc = "request"
    /\ response' = Answer(srv, page, fault)
    /\ reqlog' = Window(Append(reqlog, <<page, fault>>))
    /\ fpc' = "handle"
    /\ UNCHANGED <<fn, srv, all_items, page, result, runVars, callVars>>

RequestPage == \E fault \in Faults : SendRequest(fault)

\* the rest of the iteration of `while True`
HandlePage ==
    LET it == ListingIter(all_items, page, response)
    IN  /\ fpc = "handle"
        /\ all_items' = Kept(it.acc)
        /\ page' = Min(it.page, MaxPage)
        /\ fpc' = IF it.ctl = "continue" THEN "request" ELSE "returned"
        /\ result' = IF it.ctl = "break" THEN Some(it.acc) ELSE None
        /\ UNCHANGED <<fn, srv, response, reqlog, runVars, callVars>>

\* no function is called on its own
CallIdle ==
    /\ call = "none"
    /\ args = <<>>
    /\ ret = None

\* no script runs while one listing call is looked at on its own
RunIdle ==
    /\ script = "none"
    /\ pc = "idle"
    /\ GITLAB_TOKEN = None
    /\ PROJECT_LIST_FILE = None
    /\ MIGRATE_REPO_VALUES = <<>>
    /\ csvFile = [state |-> "unread", fieldnames |-> {}, rows |-> <<>>]
    /\ project_filter = None
    /\ groups = None
    /\ gi = 0
    /\ listed = <<>>
    /\ all_projects = <<>>
    /\ projects = <<>>
    /\ idx = 0
    /\ lookups = 0
    /\ stats = <<>>
    /\ failed = <<>>
    /\ outputFile = None
    /\ writes = 0
    /\ exitCode = None

InitFetch ==
    /\ fn \in {"fetch_all_groups", "fetch_all_projects"}
    /\ srv \in Servers
    /\ all_items = <<>>
    /\ page = 1
    /\ response = NoResponse
    /\ reqlog = <<>>
    /\ fpc = "request"
    /\ result = None
    /\ RunIdle
    /\ CallIdle

NextFetch ==
    \/ RequestPage
    \/ HandlePage

SpecFetch == InitFetch /\ [][NextFetch]_vars

\* every request is answered or times out, and the answer is then handled
FairSpecFetch == SpecFetch /\ WF_vars(NextFetch)

----------------------------------------------------------------------------
(* The listing functions run to their return *)

\* the failure, if any, of the request for page pg: plan names one page
FaultAt(plan, pg) == IF pg = plan.page THEN plan.fault ELSE "none"

FaultPlans ==
    {[page |-> 0, fault |-> "none"]}
    \cup [page : 1..2, fault : {"non200", "Timeout", "ConnectionError"}]

RECURSIVE FetchFrom(_, _, _, _)
FetchFrom(s, plan, acc, pg) ==
    LET it == ListingIter(acc, pg, Answer(s, pg, FaultAt(plan, pg)))
    IN  IF it.ctl = "continue" THEN FetchFrom(s, plan, it.acc, it.page)
        ELSE IF it.ctl = "break" THEN Some(it.acc)
        ELSE None

\* fetch_all_groups(headers) against server s
fetch_all_groups(s, plan) == FetchFrom(s, plan, <<>>, 1)

\* fetch_all_projects(group_path, headers) against the group's listing s
fetch_all_projects(s, plan) == FetchFrom(s, plan, <<>>, 1)

----------------------------------------------------------------------------
(* Byte counts and bytes_to_mb *)

MiB == 1024 * 1024
GiB == 1024 * MiB

\* A byte count g * 1024^3 + r with 0 <= r < 1024^3: sizes of several GiB do
\* not fit the 32-bit integers of TLC, Python's integers are unbounded.
Bytes(g, r) == [gib |-> g, rem |-> r]
Zero == Bytes(0, 0)

\* bytes >= k * 1024 * 1024 * 1024
ExceedsGiB_NotStrict(bytes, k) == bytes.gib >= k

\* bytes > k * 1024 * 1024 * 1024
ExceedsGiB(bytes, k) == bytes.gib > k \/ (bytes.gib = k /\ bytes.rem > 0)

\* x / 2^20 * 100 cut, not rounded
RoundHundredths_Truncates(x) == (x * 100) \div MiB

\* round(x / 2^20 * 100) for 0 <= x < 2^20, ties to even
RoundHundredths(x) ==
    LET q == (x * 100) \div MiB
        r == (x * 100) % MiB
    IN  IF 2 * r > MiB \/ (2 * r = MiB /\ q % 2 = 1) THEN q + 1 ELSE q

\* bytes_to_mb(bytes_value) in hundredths of a megabyte, bytes_value None or
\* Some(byte count)
bytes_to_mb(bytes_value) ==
    IF IsNone(bytes_value) THEN 0
    ELSE Val(bytes_value).gib * 1024 * 100
         + (Val(bytes_value).rem \div MiB) * 100
         + RoundHundredths(Val(bytes_value).rem % MiB)

----------------------------------------------------------------------------
(* What the GitLab server holds *)

\* The groups: "eng" and its subgroup "eng/web". The payload of the subgroup
\* carries only the keys every group has.
GroupItem(i) ==
    IF i = 1
    THEN [id |-> 1, name |-> <<"eng">>, path |-> <<"eng">>,
          full_path |-> <<"eng">>, description |-> "engineering",
          visibility |-> "private", created_at |-> "2020-01-01",
          web_url |-> "https://gitlab.com/groups/eng",
          statistics |-> Some([storage_size |-> Bytes(0, 3145728),
                               repository_size |-> Bytes(0, 1048576)])]
    ELSE IF i = 2
    THEN [id |-> 2, name |-> <<"web">>, path |-> <<"web">>,
          full_path |-> <<"eng/web">>, parent_id |-> 1]
    ELSE [id |-> 3, name |-> <<"ops">>, path |-> <<"ops">>,
          full_path |-> <<"ops">>, visibility |-> "internal",
          statistics |-> None]

\* the groups listing: the groups in either order, the subgroup or the parent
\* possibly not visible to the token; group 3 has "statistics": null
GroupListings ==
    {<<>>, <<GroupItem(1)>>, <<GroupItem(2)>>, <<GroupItem(3)>>,
     <<GroupItem(1), GroupItem(2)>>, <<GroupItem(2), GroupItem(1)>>,
     <<GroupItem(3), GroupItem(1)>>}

ProjectName(i) ==
    CASE i = 1 -> <<"a">> [] i = 2 -> <<"b">> [] i = 3 -> <<"c">>
      [] OTHER -> <<"d">>

\* project 2 has the path "c", which is the name of project 3
ProjectPath(i) ==
    CASE i = 1 -> <<"a">> [] i = 2 -> <<"c">> [] i = 3 -> <<"web-c">>
      [] OTHER -> <<"d">>

\* The payload of project i in a listing. Odd projects carry every key the
\* scripts read, even ones only the keys every project has; project 3 is
\* archived.
ProjectItem(i) ==
    IF i % 2 = 1
    THEN [id |-> i, name |-> ProjectName(i), path |-> ProjectPath(i),
          path_with_namespace |-> <<"eng">> \o ProjectPath(i),
          archived |-> (i = 3), default_branch |-> "develop",
          star_count |-> i, forks_count |-> 1, open_issues_count |-> 2,
          last_activity_at |-> "2024-05-01", visibility |-> "internal",
          created_at |-> "2021-01-01", web_url |-> "https://gitlab.com/eng",
          statistics |-> Some([repository_size |-> Bytes(0, 2097152 * i),
                               storage_size |-> Bytes(i, 5242880)])]
    ELSE [id |-> i, name |-> ProjectName(i), path |-> ProjectPath(i),
          path_with_namespace |-> <<"eng">> \o ProjectPath(i)]

\* The projects listing of a group (include_subgroups=true): the top-level
\* group lists the first projects, the subgroup the last of them, which it
\* owns; group 3 has none.
ProjectListings(g) ==
    IF g.id = 1
    THEN {[i \in 1..n |-> ProjectItem(i)] : n \in 0..MaxProjects}
    ELSE IF g.id = 2
    THEN {<<>>, <<ProjectItem(MaxProjects)>>}
    ELSE {<<>>}

ListingServers(colls) ==
    [kind : {"paged"}, coll : colls, ps : 1..MaxPageSize,
     lastHdr : {"absent", "empty", "next"}]

----------------------------------------------------------------------------
(* Per-project statistics (gitlab-details.py) *)

\* An answer to one auxiliary request: exc is the exception requests raised
\* ("none" if it answered), x_total the X-Total header (None if absent).
Raised(e) == [exc |-> e, status_code |-> 0, x_total |-> None, body |-> <<>>]
Answered(code, total, body) ==
    [exc |-> "none", status_code |-> code, x_total |-> total, body |-> body]

RepoStatsDefaults ==
    [file_count |-> 0, repository_size |-> Zero, storage_size |-> Zero,
     commit_count |-> 0, branch_count |-> 0, object_count |-> 0,
     all_branches_file_count |-> 0, has_large_file |-> FALSE,
     exceeds_6gb |-> FALSE, exceeds_2gb |-> FALSE, has_pipeline |-> FALSE]

Max(a, b) == IF a > b THEN a ELSE b

\* the object count taken from the file count of the default branch
get_repository_object_count_DefaultBranch(a, existing_stats) ==
    IF a.tags.exc # "none" \/ a.mrs.exc # "none"
    THEN existing_stats.commit_count + existing_stats.file_count
    ELSE LET tag_count ==
                 IF a.tags.status_code = 200 /\ ~IsNone(a.tags.x_total)
                 THEN Val(a.tags.x_total) ELSE 0
             file_count == existing_stats.file_count
             mr_count ==
                 IF a.mrs.status_code = 200 /\ ~IsNone(a.mrs.x_total)
                 THEN Val(a.mrs.x_total) ELSE 0
         IN  existing_stats.commit_count + existing_stats.branch_count
             + tag_count + file_count + Max(file_count \div 10, 1) + mr_count

\* get_repository_object_count(project_id, headers, existing_stats); a.tags
\* and a.mrs answer its two HEAD requests
get_repository_object_count(a, existing_stats) ==
    IF a.tags.exc # "none" \/ a.mrs.exc # "none"
    THEN existing_stats.commit_count + existing_stats.file_count
    ELSE LET tag_count ==
                 IF a.tags.status_code = 200 /\ ~IsNone(a.tags.x_total)
                 THEN Val(a.tags.x_total) ELSE 0
             file_count == existing_stats.all_branches_file_count
             mr_count ==
                 IF a.mrs.status_code = 200 /\ ~IsNone(a.mrs.x_total)
                 THEN Val(a.mrs.x_total) ELSE 0
         IN  existing_stats.commit_count + existing_stats.branch_count
             + tag_count + file_count + Max(file_count \div 10, 1) + mr_count

\* get_repository_stats_via_api(project_id, headers). a.project answers the
\* request for the project with its statistics (body: None or Some(dict));
\* a.file_count, a.branch_count, a.has_pipeline and a.all_branches are what
\* get_repository_file_count, get_branch_count, check_for_pipeline_config and
\* get_all_branches_file_stats return.
get_repository_stats_via_api(a) ==
    IF a.project.exc # "none" THEN RepoStatsDefaults
    ELSE
    LET statistics ==
            IF a.project.status_code = 200 /\ ~IsNone(a.project.body)
            THEN Get(Val(a.project.body), "statistics", <<>>)
            ELSE <<>>
        s1 == IF DOMAIN statistics # {}
              THEN [RepoStatsDefaults EXCEPT
                      !.repository_size =
                          Get(statistics, "repository_size", Zero),
                      !.storage_size = Get(statistics, "storage_size", Zero),
                      !.commit_count = Get(statistics, "commit_count", 0),
                      !.exceeds_2gb =
                          ExceedsGiB(Get(statistics, "storage_size", Zero), 2),
                      !.exceeds_6gb =
                          ExceedsGiB(Get(statistics, "storage_size", Zero), 6)]
              ELSE RepoStatsDefaults
        s2 == [s1 EXCEPT !.file_count = a.file_count,
                         !.branch_count = a.branch_count,
                         !.has_pipeline = a.has_pipeline,
                         !.all_branches_file_count = a.all_branches.total_files,
                         !.has_large_file = a.all_branches.has_large_file]
    IN  [s2 EXCEPT !.object_count = get_repository_object_count(a, s2)]

RECURSIVE SumCommits(_)
SumCommits(contributors) ==
    IF contributors = <<>> THEN 0
    ELSE Get(Head(contributors), "commits", 0) + SumCommits(Tail(contributors))

ProjectFieldnames ==
    <<"id", "group_name", "project_name", "group_path", "path", "status",
      "archived", "stars", "forks", "open_issues", "merge_requests",
      "last_activity", "contributors", "total_commits", "branch_count",
      "file_count", "all_branches_file_count", "total_objects",
      "repository_size_mb", "total_size_mb", "has_large_file_100mb",
      "exceeds_2gb", "exceeds_6gb", "pipeline", "visibility", "created_at",
      "default_branch", "web_url">>

\* the fallback decided on the storage size alone, for that size alone
final_sizes_StorageOnly(project, repo_stats) ==
    LET listed_stats == Get(project, "statistics", Some(<<>>))
    IN  [repository_size |-> repo_stats.repository_size,
         storage_size |->
            IF repo_stats.storage_size = Zero
            THEN Get(Val(listed_stats), "storage_size", Zero)
            ELSE repo_stats.storage_size]

\* repository_size and storage_size after the fallback to the listing payload
final_sizes(project, repo_stats) ==
    LET listed_stats == Get(project, "statistics", Some(<<>>))
        fallback ==
            repo_stats.repository_size = Zero /\ repo_stats.storage_size = Zero
    IN  [repository_size |->
            IF fallback THEN Get(Val(listed_stats), "repository_size", Zero)
            ELSE repo_stats.repository_size,
         storage_size |->
            IF fallback THEN Get(Val(listed_stats), "storage_size", Zero)
            ELSE repo_stats.storage_size]

\* the project_stats dict of one project
project_stats(project, contributors, total_commits, repo_stats, mr_count) ==
    LET is_archived == Get(project, "archived", FALSE)
        repository_size == final_sizes(project, repo_stats).repository_size
        storage_size == final_sizes(project, repo_stats).storage_size
    IN  [id |-> project.id,
         group_name |-> Get(project, "_group_name", <<"N/A">>),
         project_name |-> project.name,
         group_path |-> Get(project, "_group_path", <<"N/A">>),
         path |-> project.path_with_namespace,
         status |-> IF is_archived THEN "archived" ELSE "active",
         archived |-> is_archived,
         stars |-> Get(project, "star_count", 0),
         forks |-> Get(project, "forks_count", 0),
         open_issues |-> Get(project, "open_issues_count", 0),
         merge_requests |-> mr_count,
         last_activity |-> Get(project, "last_activity_at", "N/A"),
         contributors |-> Len(contributors),
         total_commits |-> total_commits,
         branch_count |-> repo_stats.branch_count,
         file_count |-> repo_stats.file_count,
         all_branches_file_count |-> repo_stats.all_branches_file_count,
         total_objects |-> repo_stats.object_count,
         repository_size_mb |-> bytes_to_mb(Some(repository_size)),
         total_size_mb |-> bytes_to_mb(Some(storage_size)),
         has_large_file_100mb |-> repo_stats.has_large_file,
         exceeds_2gb |-> ExceedsGiB(storage_size, 2),
         exceeds_6gb |-> ExceedsGiB(storage_size, 6),
         pipeline |-> repo_stats.has_pipeline,
         visibility |-> Get(project, "visibility", "N/A"),
         created_at |-> Get(project, "created_at", "N/A"),
         default_branch |-> Get(project, "default_branch", "main"),
         web_url |-> Get(project, "web_url", "N/A")]

\* process_project with an except clause of its own around the contributors
\* request
process_project_AbsorbsContributors(project, a) ==
    LET ok == a.contributors.exc = "none" /\ a.contributors.status_code = 200
        contributors == IF ok THEN a.contributors.body ELSE <<>>
        total_commits == IF ok THEN SumCommits(contributors) ELSE 0
        repo_stats == get_repository_stats_via_api(a.repo)
        merge_request_count ==
            IF a.mr.exc = "none" /\ a.mr.status_code = 200
               /\ ~IsNone(a.mr.x_total)
            THEN Val(a.mr.x_total) ELSE 0
    IN  [raised |-> FALSE, lookups |-> 3,
         record |-> project_stats(project, contributors, total_commits,
                                  repo_stats, merge_request_count)]

\* process_project with a merge request count that is not reset to 0 when its
\* lookup fails
process_project_StaleCount(project, a) ==
    IF a.contributors.exc # "none"
    THEN [raised |-> TRUE, lookups |-> 1, record |-> <<>>]
    ELSE
    LET ok == a.contributors.status_code = 200
        contributors == IF ok THEN a.contributors.body ELSE <<>>
        total_commits == IF ok THEN SumCommits(contributors) ELSE 0
        repo_stats == get_repository_stats_via_api(a.repo)
        merge_request_count ==
            IF a.mr.exc = "none" /\ a.mr.status_code = 200
               /\ ~IsNone(a.mr.x_total)
            THEN Val(a.mr.x_total) ELSE -1
    IN  [raised |-> FALSE, lookups |-> 3,
         record |-> project_stats(project, contributors, total_commits,
                                  repo_stats, merge_request_count)]

\* One iteration of the project loop: the body of the try block. a.contributors
\* answers the contributors request, a.repo the requests of
\* get_repository_stats_via_api, a.mr the merge-request HEAD request.
\* raised: an exception left the block, and the project is a failed one.
process_project(project, a) ==
    IF a.contributors.exc # "none"
    THEN [raised |-> TRUE, lookups |-> 1, record |-> <<>>]
    ELSE
    LET ok == a.contributors.status_code = 200
        contributors == IF ok THEN a.contributors.body ELSE <<>>
        total_commits == IF ok THEN SumCommits(contributors) ELSE 0
        repo_stats == get_repository_stats_via_api(a.repo)
        merge_request_count ==
            IF a.mr.exc = "none" /\ a.mr.status_code = 200
               /\ ~IsNone(a.mr.x_total)
            THEN Val(a.mr.x_total) ELSE 0
    IN  [raised |-> FALSE, lookups |-> 3,
         record |-> project_stats(project, contributors, total_commits,
                                  repo_stats, merge_request_count)]

\* the answers an aggregation can get
ContributorsOk ==
    Answered(200, None, <<[name |-> "x", commits |-> 3], [name |-> "y"]>>)

MrOk == Answered(200, Some(5), <<>>)

RepoOk ==
    [project |-> Answered(200, None,
                    Some([statistics |-> [repository_size |-> Bytes(0, MiB),
                                          storage_size |-> Bytes(2, 1),
                                          commit_count |-> 7]])),
     file_count |-> 25, branch_count |-> 2, has_pipeline |-> TRUE,
     all_branches |-> [total_files |-> 31, has_large_file |-> TRUE],
     tags |-> Answered(200, Some(4), <<>>),
     mrs |-> Answered(200, Some(5), <<>>)]

RepoDown ==
    [project |-> Raised("Timeout"),
     file_count |-> 0, branch_count |-> 0, has_pipeline |-> FALSE,
     all_branches |-> [total_files |-> 0, has_large_file |-> FALSE],
     tags |-> Raised("Timeout"), mrs |-> Raised("Timeout")]

\* what the three lookups of one project can be answered with
LookupAnswers ==
    [contributors : {ContributorsOk, Raised("Timeout"),
                     Raised("ConnectionError"), Answered(404, None, <<>>),
                     Answered(500, None, <<>>)},
     repo : {RepoOk, RepoDown},
     mr : {MrOk, Raised("Timeout"), Answered(403, None, <<>>),
           Answered(200, None, <<>>)}]

\* The answers the project loop of a run is taken through: every lookup
\* answers; the contributors request raises; the statistics requests raise;
\* every lookup fails without raising.
ProjectAnswers ==
    {[contributors |-> ContributorsOk, repo |-> RepoOk, mr |-> MrOk],
     [contributors |-> Raised("Timeout"), repo |-> RepoOk, mr |-> MrOk],
     [contributors |-> ContributorsOk, repo |-> RepoDown, mr |-> MrOk],
     [contributors |-> Answered(500, None, <<>>), repo |-> RepoDown,
      mr |-> Answered(403, None, <<>>)]}

----------------------------------------------------------------------------
(* Per-group statistics (gitlab-groups.py) *)

GroupFieldnames ==
    <<"id", "name", "path", "full_path", "description", "visibility",
      "project_count", "subgroup_count", "member_count", "storage_size_mb",
      "repository_size_mb", "created_at", "parent_id", "web_url">>

\* the group_stats dict of one group
group_stats(group, project_count, subgroup_count, member_count, statistics) ==
    [id |-> group.id,
     name |-> group.name,
     path |-> group.path,
     full_path |-> group.full_path,
     description |-> Get(group, "description", ""),
     visibility |-> Get(group, "visibility", "N/A"),
     project_count |-> project_count,
     subgroup_count |-> subgroup_count,
     member_count |-> member_count,
     storage_size_mb |-> bytes_to_mb(Some(Get(statistics, "storage_size", Zero))),
     repository_size_mb |->
         bytes_to_mb(Some(Get(statistics, "repository_size", Zero))),
     created_at |-> Get(group, "created_at", "N/A"),
     parent_id |-> Get(group, "parent_id", ""),
     web_url |-> Get(group, "web_url", "N/A")]

\* One iteration of the group loop: the body of the try block. a holds what
\* get_group_project_count, get_subgroup_count and get_group_member_count
\* return, 0 when their requests fail. "statistics": null makes
\* statistics.get raise.
process_group(group, a) ==
    LET statistics == Get(group, "statistics", Some(<<>>))
    IN  IF IsNone(statistics)
        THEN [raised |-> TRUE, lookups |-> 3, record |-> <<>>]
        ELSE [raised |-> FALSE, lookups |-> 3,
              record |-> group_stats(group, a.project_count, a.subgroup_count,
                                     a.member_count, Val(statistics))]

GroupAnswers ==
    [project_count : {0, 3}, subgroup_count : {0, 1}, member_count : {0, 4}]

----------------------------------------------------------------------------
(* The run of a script *)

\* OUTPUT_FILE as an earlier run left it
PriorReport == [fieldnames |-> <<"id">>, rows |-> <<[id |-> 99]>>]

\* the line csv.DictWriter writes for a row: a key the row lacks is written
\* empty
CsvLine(fieldnames, row) ==
    [f \in SeqToSet(fieldnames) |-> Get(row, f, "")]

\* the two tags the other way round
Tag_Swapped(project, group_name, group_path) ==
    [k \in DOMAIN project \cup {"_group_name", "_group_path"} |->
        IF k = "_group_name" THEN group_path
        ELSE IF k = "_group_path" THEN group_name
        ELSE project[k]]

\* project['_group_name'] = group_name; project['_group_path'] = group_path
Tag(project, group_name, group_path) ==
    [k \in DOMAIN project \cup {"_group_name", "_group_path"} |->
        IF k = "_group_name" THEN group_name
        ELSE IF k = "_group_path" THEN group_path
        ELSE project[k]]

TagAll(ps, group_name, group_path) ==
    [i \in 1..Len(ps) |-> Tag(ps[i], group_name, group_path)]

\* the entities the aggregation loop goes through
Selected == IF script = "details" THEN projects ELSE Val(groups)

Exit(code) ==
    /\ pc' = "exited"
    /\ exitCode' = Some(code)

\* `if groups is None: sys.exit(1)` with exit code 0
groups_outcome_ExitsZero(g) ==
    IF IsNone(g) THEN "exit 0"
    ELSE IF Val(g) = <<>> THEN "exit 0"
    ELSE "go on"

\* the tests that follow fetch_all_groups in both scripts
groups_outcome(g) ==
    IF IsNone(g) THEN "exit 1"
    ELSE IF Val(g) = <<>> THEN "exit 0"
    ELSE "go on"

\* `if not projects: sys.exit(0)` with exit code 1
projects_outcome_ExitsOne(ps) == IF ps = <<>> THEN "exit 1" ELSE "go on"

\* the test that follows the filter in gitlab-details.py
projects_outcome(ps) == IF ps = <<>> THEN "exit 0" ELSE "go on"

\* from the start of the script to the validation of the token
Configure ==
    /\ pc = "config"
    /\ \E env \in EnvTokens, tf \in TokenFiles :
        LET c == IF script = "details" THEN details_config(env, tf)
                 ELSE groups_config(env, tf)
        IN  /\ GITLAB_TOKEN' = c.token
            /\ PROJECT_LIST_FILE' = c.plf
            /\ MIGRATE_REPO_VALUES' = c.mrv
            /\ IF ~IsNone(c.exit)
               THEN Exit(Val(c.exit))
               ELSE /\ pc' = IF script = "details" THEN "load_filter"
                             ELSE "fetch_groups"
                    /\ exitCode' = exitCode
    /\ UNCHANGED <<script, csvFile, project_filter, groups, gi, listed,
                   all_projects, projects, idx, lookups, stats, failed,
                   outputFile, writes, fetchVars, callVars>>

\* project_filter = load_project_filter()
LoadFilter ==
    /\ pc = "load_filter"
    /\ \E f \in IF Truthy(PROJECT_LIST_FILE) THEN CsvFiles ELSE {NoCsv} :
        project_filter' =
            load_project_filter(PROJECT_LIST_FILE, MIGRATE_REPO_VALUES, f)
    /\ pc' = "fetch_groups"
    /\ UNCHANGED <<script, GITLAB_TOKEN, PROJECT_LIST_FILE,
                   MIGRATE_REPO_VALUES, csvFile, groups, gi, listed, all_projects,
                   projects, idx, lookups, stats, failed, outputFile, writes,
                   exitCode, fetchVars, callVars>>

\* groups = fetch_all_groups(headers) and the two tests that follow it
FetchGroups ==
    /\ pc = "fetch_groups"
    /\ \E s \in ListingServers(GroupListings), plan \in FaultPlans :
        LET g == fetch_all_groups(s, plan)
        IN  /\ groups' = g
            /\ IF groups_outcome(g) = "exit 1" THEN Exit(1)
               ELSE IF groups_outcome(g) = "exit 0" THEN Exit(0)
               ELSE /\ pc' = IF script = "details" THEN "discover"
                             ELSE "aggregate"
                    /\ exitCode' = exitCode
    /\ UNCHANGED <<script, GITLAB_TOKEN, PROJECT_LIST_FILE,
                   MIGRATE_REPO_VALUES, csvFile, project_filter, gi, listed,
                   all_projects, projects, idx, lookups, stats, failed,
                   outputFile, writes, fetchVars, callVars>>

\* a failed listing that empties all_projects
add_projects_FailureClears(acc, found, group) ==
    IF IsNone(found) THEN <<>>
    ELSE acc \o TagAll(Val(found), group.name, group.full_path)

\* `if projects is None: continue`, else the projects tagged and
\* all_projects.extend(projects)
add_projects(acc, found, group) ==
    IF IsNone(found) THEN acc
    ELSE acc \o TagAll(Val(found), group.name, group.full_path)

\* one iteration of `for group in groups` of gitlab-details.py
DiscoverGroup ==
    /\ pc = "discover"
    /\ gi < Len(Val(groups))
    /\ LET group == Val(groups)[gi + 1]
       IN  \E s \in ListingServers(ProjectListings(group)), plan \in FaultPlans :
            LET found == fetch_all_projects(s, plan)
            IN  /\ listed' = Append(listed, found)
                /\ all_projects' = add_projects(all_projects, found, group)
    /\ gi' = gi + 1
    /\ UNCHANGED <<script, pc, GITLAB_TOKEN, PROJECT_LIST_FILE,
                   MIGRATE_REPO_VALUES, csvFile, project_filter, groups,
                   projects, idx, lookups, stats, failed, outputFile, writes,
                   exitCode, fetchVars, callVars>>

\* a filter that keeps everything when it matches nothing
apply_filter_FallsBack(discovered, pfilter) ==
    LET Keep(p) == should_process_project(p, pfilter)
    IN  IF ~IsNone(pfilter) /\ SelectSeq(discovered, Keep) # <<>>
        THEN SelectSeq(discovered, Keep)
        ELSE discovered

\* the projects the filter keeps
apply_filter(discovered, pfilter) ==
    LET Keep(p) == should_process_project(p, pfilter)
    IN  IF ~IsNone(pfilter) THEN SelectSeq(discovered, Keep) ELSE discovered

\* after the group loop: the filter and the test for an empty result
ApplyFilter ==
    /\ pc = "discover"
    /\ gi = Len(Val(groups))
    /\ projects' = apply_filter(all_projects, project_filter)
    /\ IF projects_outcome(projects') = "exit 1" THEN Exit(1)
       ELSE IF projects_outcome(projects') = "exit 0" THEN Exit(0)
       ELSE /\ pc' = "aggregate"
            /\ exitCode' = exitCode
    /\ UNCHANGED <<script, GITLAB_TOKEN, PROJECT_LIST_FILE,
                   MIGRATE_REPO_VALUES, csvFile, project_filter, groups, gi,
                   listed, all_projects, idx, lookups, stats, failed,
                   outputFile, writes, fetchVars, callVars>>

\* a loop that forgets the entity whose iteration raised
LoopStep_DropsFailed(r, name) ==
    /\ stats' = IF r.raised THEN stats ELSE Append(stats, r.record)
    /\ failed' = failed
    /\ idx' = idx + 1
    /\ lookups' = lookups + r.lookups

\* the loop variables after one iteration that ended as r
LoopStep(r, name) ==
    /\ stats' = IF r.raised THEN stats ELSE Append(stats, r.record)
    /\ failed' = IF r.raised THEN Append(failed, name) ELSE failed
    /\ idx' = idx + 1
    /\ lookups' = lookups + r.lookups

\* one iteration of `for idx, project in enumerate(projects)`
ProcessProject ==
    /\ pc = "aggregate"
    /\ script = "details"
    /\ idx < Len(projects)
    /\ \E a \in ProjectAnswers :
        LoopStep(process_project(projects[idx + 1], a), projects[idx + 1].name)
    /\ UNCHANGED <<script, pc, GITLAB_TOKEN, PROJECT_LIST_FILE,
                   MIGRATE_REPO_VALUES, csvFile, project_filter, groups, gi,
                   listed, all_projects, projects, outputFile, writes,
                   exitCode, fetchVars, callVars>>

\* one iteration of `for idx, group in enumerate(groups)` of gitlab-groups.py
ProcessGroup ==
    /\ pc = "aggregate"
    /\ script = "groups"
    /\ idx < Len(Val(groups))
    /\ \E a \in GroupAnswers :
        LoopStep(process_group(Val(groups)[idx + 1], a),
                 Val(groups)[idx + 1].name)
    /\ UNCHANGED <<script, pc, GITLAB_TOKEN, PROJECT_LIST_FILE,
                   MIGRATE_REPO_VALUES, csvFile, project_filter, groups, gi,
                   listed, all_projects, projects, outputFile, writes,
                   exitCode, fetchVars, callVars>>

\* the report written without `if stats:`: the header alone when there is no
\* record
write_report_Unconditional(fieldnames, records, before) ==
    Some([fieldnames |-> fieldnames,
          rows |-> [i \in 1..Len(records) |->
                       CsvLine(fieldnames, records[i])]])

\* what the run leaves in OUTPUT_FILE: nothing is written without records
write_report(fieldnames, records, before) ==
    IF records # <<>>
    THEN Some([fieldnames |-> fieldnames,
               rows |-> [i \in 1..Len(records) |->
                            CsvLine(fieldnames, records[i])]])
    ELSE before

\* after the loop: the summary, the report, the end of the script
WriteResults ==
    /\ pc = "aggregate"
    /\ idx = Len(Selected)
    /\ outputFile' =
           write_report(IF script = "details" THEN ProjectFieldnames
                        ELSE GroupFieldnames, stats, outputFile)
    /\ writes' = IF stats # <<>> THEN writes + 1 ELSE writes
    /\ pc' = "finished"
    /\ exitCode' = Some(0)
    /\ UNCHANGED <<script, GITLAB_TOKEN, PROJECT_LIST_FILE,
                   MIGRATE_REPO_VALUES, csvFile, project_filter, groups, gi,
                   listed, all_projects, projects, idx, lookups, stats,
                   failed, fetchVars, callVars>>

\* no listing call of its own is in progress during a run
FetchIdle ==
    /\ fn = "none"
    /\ srv = [kind |-> "none", coll |-> <<>>, ps |-> 1, lastHdr |-> "absent"]
    /\ all_items = <<>>
    /\ page = 1
    /\ response = NoResponse
    /\ reqlog = <<>>
    /\ fpc = "idle"
    /\ result = None

Init ==
    /\ script \in {"details", "groups"}
    /\ pc = "config"
    /\ GITLAB_TOKEN = None
    /\ PROJECT_LIST_FILE = None
    /\ MIGRATE_REPO_VALUES = <<>>
    /\ csvFile = NoCsv
    /\ project_filter = None
    /\ groups = None
    /\ gi = 0
    /\ listed = <<>>
    /\ all_projects = <<>>
    /\ projects = <<>>
    /\ idx = 0
    /\ lookups = 0
    /\ stats = <<>>
    /\ failed = <<>>
    /\ outputFile = Some(PriorReport)
    /\ writes = 0
    /\ exitCode = None
    /\ FetchIdle
    /\ CallIdle

Next ==
    \/ Configure
    \/ LoadFilter
    \/ FetchGroups
    \/ DiscoverGroup
    \/ ApplyFilter
    \/ ProcessProject
    \/ ProcessGroup
    \/ WriteResults

Spec == Init /\ [][Next]_vars

----------------------------------------------------------------------------
(* load_project_filter and the filter on their own *)

\* MIGRATE_REPO_VALUES: empty, the default, a list, a value with white space
\* around it
MigrateValueLists ==
    {<<>>, <<<<"Migrate">>>>, <<<<"Skip">>, <<"Migrate">>>>,
     <<<<" ", "Migrate", " ">>>>}

FilterLoad ==
    /\ pc = "filter: load"
    /\ project_filter' =
           load_project_filter(PROJECT_LIST_FILE, MIGRATE_REPO_VALUES, csvFile)
    /\ pc' = "filter: apply"
    /\ UNCHANGED <<script, GITLAB_TOKEN, PROJECT_LIST_FILE,
                   MIGRATE_REPO_VALUES, csvFile, groups, gi, listed,
                   all_projects, projects, idx, lookups, stats, failed,
                   outputFile, writes, exitCode, fetchVars, callVars>>

FilterApply ==
    /\ pc = "filter: apply"
    /\ projects' = apply_filter(all_projects, project_filter)
    /\ pc' = "filter: applied"
    /\ UNCHANGED <<script, GITLAB_TOKEN, PROJECT_LIST_FILE,
                   MIGRATE_REPO_VALUES, csvFile, project_filter, groups, gi,
                   listed, all_projects, idx, lookups, stats, failed,
                   outputFile, writes, exitCode, fetchVars, callVars>>

InitFilter ==
    /\ script = "details"
    /\ pc = "filter: load"
    /\ GITLAB_TOKEN = Some(<<"glpat">>)
    /\ PROJECT_LIST_FILE \in {None, Some(<<"projects.csv">>)}
    /\ MIGRATE_REPO_VALUES \in MigrateValueLists
    /\ csvFile \in CsvFiles
    /\ project_filter = None
    /\ groups = Some(<<GroupItem(1)>>)
    /\ gi = 1
    /\ \E found \in ProjectListings(GroupItem(1)) :
        /\ listed = <<Some(found)>>
        /\ all_projects = TagAll(found, <<"eng">>, <<"eng">>)
    /\ projects = <<>>
    /\ idx = 0
    /\ lookups = 0
    /\ stats = <<>>
    /\ failed = <<>>
    /\ outputFile = Some(PriorReport)
    /\ writes = 0
    /\ exitCode = None
    /\ FetchIdle
    /\ CallIdle

NextFilter ==
    \/ FilterLoad
    \/ FilterApply

SpecFilter == InitFilter /\ [][NextFilter]_vars

----------------------------------------------------------------------------
(* The functions called on their own *)

\* storage sizes around the two thresholds
StorageSizes ==
    {Zero, Bytes(0, 1), Bytes(2, 0), Bytes(2, 1), Bytes(6, 0), Bytes(6, 1)}

RepositorySizes == {Zero, Bytes(0, MiB)}

SizeStatistics ==
    [repository_size : RepositorySizes, storage_size : StorageSizes]

\* a project of a listing, tagged, without or with embedded statistics
SizedProjects ==
    {Tag(ProjectItem(2), <<"eng">>, <<"eng">>)}
    \cup
    {[k \in DOMAIN Tag(ProjectItem(2), <<"eng">>, <<"eng">>) \cup {"statistics"}
        |-> IF k = "statistics" THEN Some(st)
            ELSE Tag(ProjectItem(2), <<"eng">>, <<"eng">>)[k]]
        : st \in SizeStatistics}

\* the request for the project: it raises, answers 404, answers without
\* statistics, or answers with statistics
ProjectRequests ==
    {Raised("Timeout"), Answered(404, None, None),
     Answered(200, None, Some([id |-> 2]))}
    \cup
    {Answered(200, None, Some([statistics |-> st])) : st \in SizeStatistics}

SizedAnswers ==
    {[contributors |-> ContributorsOk,
      repo |-> [RepoOk EXCEPT !.project = pr],
      mr |-> MrOk] : pr \in ProjectRequests}

\* every lookup of a project answers
AllOk == [contributors |-> ContributorsOk, repo |-> RepoOk, mr |-> MrOk]

\* One lookup of a project fails and the others answer: a request raises, or
\* one of get_repository_file_count, get_branch_count,
\* check_for_pipeline_config, get_all_branches_file_stats returns what it
\* returns on an exception.
FailureAnswers ==
    {AllOk,
     [AllOk EXCEPT !.contributors = Raised("Timeout")],
     [AllOk EXCEPT !.contributors = Raised("ConnectionError")],
     [AllOk EXCEPT !.repo.project = Raised("Timeout")],
     [AllOk EXCEPT !.repo.file_count = 0],
     [AllOk EXCEPT !.repo.branch_count = 0],
     [AllOk EXCEPT !.repo.has_pipeline = FALSE],
     [AllOk EXCEPT !.repo.all_branches =
                        [total_files |-> 0, has_large_file |-> FALSE]],
     [AllOk EXCEPT !.repo.tags = Raised("Timeout")],
     [AllOk EXCEPT !.repo.mrs = Raised("ConnectionError")],
     [AllOk EXCEPT !.mr = Raised("Timeout")]}

\* answers to the HEAD of the tags and of the merge requests
TotalAnswers(n) ==
    {Answered(200, Some(n), <<>>), Answered(200, None, <<>>),
     Answered(404, Some(9), <<>>), Raised("Timeout")}

\* what the project request gives as statistics
CommitStatistics ==
    {Answered(200, None, Some([id |-> 2]))}
    \cup {Answered(200, None,
                   Some([statistics |-> [repository_size |-> Bytes(0, MiB),
                                         storage_size |-> Bytes(0, MiB),
                                         commit_count |-> n]])) :
            n \in {0, 7}}

\* the lookups that the object count is made of
ObjectAnswers ==
    {[AllOk EXCEPT !.repo =
        [project |-> pr, file_count |-> fc, branch_count |-> bc,
         has_pipeline |-> FALSE,
         all_branches |-> [total_files |-> ab, has_large_file |-> FALSE],
         tags |-> tg, mrs |-> mr]] :
        pr \in CommitStatistics, fc \in {0, 25}, bc \in {0, 2},
        ab \in {0, 5, 31}, tg \in TotalAnswers(4), mr \in TotalAnswers(5)}

TaggedProjects ==
    {Tag(ProjectItem(i), <<"eng">>, <<"eng">>) : i \in 1..2}

\* process_project called for one project
CallProcessProject ==
    /\ call = "process_project"
    /\ IsNone(ret)
    /\ ret' = Some(process_project(args.project, args.a))
    /\ UNCHANGED <<call, args, fetchVars, runVars>>

\* byte counts from 0 to a little above 1 MiB (among them the multiples of
\* 1024^2 / 8, which fall halfway between two hundredths), and around the GiB
ByteCounts ==
    {Bytes(0, r) : r \in 0..64}
    \cup {Bytes(0, r) : r \in (MiB - 32)..(MiB + 32)}
    \cup {Bytes(0, 5243 * k) : k \in 0..250}
    \cup {Bytes(0, 131072 * k) : k \in 0..10}
    \cup {Bytes(g, r) : g \in 1..2, r \in {0, 1, GiB - 1}}

\* bytes_to_mb called on its own
CallBytesToMb ==
    /\ call = "bytes_to_mb"
    /\ IsNone(ret)
    /\ ret' = Some(bytes_to_mb(args.bytes_value))
    /\ UNCHANGED <<call, args, fetchVars, runVars>>

\* the count probe whose fallback counts the items of the body even when the
\* GET carries X-Total
HeadThenGet_CountsBody(head, get) ==
    IF head.exc # "none"
    THEN [value |-> 0, requests |-> <<"HEAD">>]
    ELSE IF head.status_code = 200 /\ ~IsNone(head.x_total)
    THEN [value |-> Val(head.x_total), requests |-> <<"HEAD">>]
    ELSE IF get.exc # "none"
    THEN [value |-> 0, requests |-> <<"HEAD", "GET">>]
    ELSE IF get.status_code = 200
    THEN [value |-> Len(get.body), requests |-> <<"HEAD", "GET">>]
    ELSE [value |-> 0, requests |-> <<"HEAD", "GET">>]

\* The body shared, word for word, by get_branch_count,
\* get_group_project_count, get_subgroup_count and get_group_member_count:
\* head and get are the answers of the server to the HEAD and to the GET of
\* the same URL; value is what the function returns, requests what it sent.
HeadThenGet(head, get) ==
    IF head.exc # "none"
    THEN [value |-> 0, requests |-> <<"HEAD">>]
    ELSE IF head.status_code = 200 /\ ~IsNone(head.x_total)
    THEN [value |-> Val(head.x_total), requests |-> <<"HEAD">>]
    ELSE IF get.exc # "none"
    THEN [value |-> 0, requests |-> <<"HEAD", "GET">>]
    ELSE IF get.status_code = 200
    THEN [value |-> IF ~IsNone(get.x_total) THEN Val(get.x_total)
                    ELSE Len(get.body),
          requests |-> <<"HEAD", "GET">>]
    ELSE [value |-> 0, requests |-> <<"HEAD", "GET">>]

get_branch_count(head, get) == HeadThenGet(head, get)
get_group_project_count(head, get) == HeadThenGet(head, get)
get_subgroup_count(head, get) == HeadThenGet(head, get)
get_group_member_count(head, get) == HeadThenGet(head, get)

CountProbes ==
    {"get_branch_count", "get_group_project_count", "get_subgroup_count",
     "get_group_member_count"}

\* answers to a HEAD (no body) and to a GET
HeadAnswers ==
    {Raised("Timeout"), Raised("ConnectionError"),
     Answered(200, None, <<>>), Answered(404, None, <<>>),
     Answered(404, Some(1), <<>>), Answered(500, None, <<>>)}
    \cup {Answered(200, Some(n), <<>>) : n \in 0..MaxLen}
GetAnswers ==
    {Raised("Timeout"), Raised("ConnectionError"),
     Answered(403, None, <<>>), Answered(500, Some(2), <<[id |-> 1]>>)}
    \cup {Answered(200, t, [i \in 1..n |-> [id |-> i]]) :
            t \in {None} \cup {Some(k) : k \in 0..MaxLen}, n \in 0..2}

\* a count probe called on its own
CallCountProbe ==
    /\ call \in CountProbes
    /\ IsNone(ret)
    /\ ret' = Some(CASE call = "get_branch_count" ->
                            get_branch_count(args.head, args.get)
                     [] call = "get_group_project_count" ->
                            get_group_project_count(args.head, args.get)
                     [] call = "get_subgroup_count" ->
                            get_subgroup_count(args.head, args.get)
                     [] call = "get_group_member_count" ->
                            get_group_member_count(args.head, args.get))
    /\ UNCHANGED <<call, args, fetchVars, runVars>>

(* get_repository_file_count (gitlab-details.py) *)

\* max_pages: the tree pages read at most
max_pages == 50

\* repo_size_mb > 10000, for repo_size in bytes: 10000 MB are 9 GiB and
\* 784 MiB
LargeRepository(repo_size) ==
    \/ repo_size.gib > 9
    \/ repo_size.gib = 9 /\ repo_size.rem > 784 * MiB

Blob == [type |-> "blob"]
Dir == [type |-> "tree"]

\* files_on_page with the directories
files_on_page_WithDirectories(items) == items

\* files_on_page = [item for item in items if item.get('type') == 'blob']
files_on_page(items) == SelectSeq(items, LAMBDA item : item.type = "blob")

\* The answer of the server to the GET of tree page p. The tree has t.full
\* pages, which hold t.odd (odd pages) or t.even (even pages); the server
\* sends X-Total-Pages if t.reports_total, X-Next-Page on every page but the
\* last unless t.next = "absent"; the request of page t.fault.at fails as
\* t.fault.kind says.
TreePage(t, p) ==
    IF t.fault.at = p /\ t.fault.kind \in {"Timeout", "ConnectionError"}
    THEN [exc |-> t.fault.kind, status_code |-> 0, items |-> <<>>,
          total_pages |-> None, next_page |-> None]
    ELSE IF t.fault.at = p
    THEN [exc |-> "none", status_code |-> t.fault.status, items |-> <<>>,
          total_pages |-> None, next_page |-> None]
    ELSE [exc |-> "none", status_code |-> 200,
          items |-> IF p > t.full THEN <<>>
                    ELSE IF p % 2 = 1 THEN t.odd ELSE t.even,
          total_pages |-> IF t.reports_total THEN Some(t.full) ELSE None,
          next_page |-> IF \/ t.next = "always"
                           \/ t.next = "honest" /\ p < t.full
                        THEN Some(p + 1) ELSE None]

\* One turn of `while page <= max_pages`, from the locals in loop: requests
\* are the pages requested so far, total_pages the last X-Total-Pages read,
\* not_found whether a page answered 404 (return 0), left whether the loop
\* has ended.
\* a turn of the loop as `while True`
tree_turn_Unbounded(t, loop) ==
    IF loop.left THEN loop
    ELSE
    LET resp == TreePage(t, loop.page)
        asked == [loop EXCEPT !.requests = Append(@, loop.page),
                              !.left = TRUE]
    IN  IF resp.exc # "none" THEN asked
        ELSE IF resp.status_code = 404 THEN [asked EXCEPT !.not_found = TRUE]
        ELSE IF resp.status_code # 200 THEN asked
        ELSE IF resp.items = <<>> THEN asked
        ELSE
        LET counted ==
                [asked EXCEPT
                    !.all_files = @ \o files_on_page(resp.items),
                    !.total_pages = IF IsNone(resp.total_pages) THEN @
                                    ELSE resp.total_pages]
        IN  IF IsNone(resp.next_page) THEN counted
            ELSE [counted EXCEPT !.page = @ + 1, !.left = FALSE]

tree_turn(t, loop) ==
    IF loop.left THEN loop
    ELSE IF loop.page > max_pages THEN [loop EXCEPT !.left = TRUE]
    ELSE
    LET resp == TreePage(t, loop.page)
        asked == [loop EXCEPT !.requests = Append(@, loop.page),
                              !.left = TRUE]
    IN  IF resp.exc # "none" THEN asked
        ELSE IF resp.status_code = 404 THEN [asked EXCEPT !.not_found = TRUE]
        ELSE IF resp.status_code # 200 THEN asked
        ELSE IF resp.items = <<>> THEN asked
        ELSE
        LET counted ==
                [asked EXCEPT
                    !.all_files = @ \o files_on_page(resp.items),
                    !.total_pages = IF IsNone(resp.total_pages) THEN @
                                    ELSE resp.total_pages]
        IN  IF IsNone(resp.next_page) THEN counted
            ELSE [counted EXCEPT !.page = @ + 1, !.left = FALSE]

\* 2^k turns of the loop
RECURSIVE tree_turns(_, _, _)
tree_turns(t, loop, k) ==
    IF k = 0 THEN tree_turn(t, loop)
    ELSE LET half == tree_turns(t, loop, k - 1)
         IN  IF half.left THEN half ELSE tree_turns(t, half, k - 1)

\* 2^TurnsLog2 turns are more than max_pages
TurnsLog2 == 6

\* all_files = []; page = 1; the loop, until it is left
tree_loop(t) ==
    tree_turns(t, [all_files |-> <<>>, page |-> 1, requests |-> <<>>,
                   total_pages |-> None, not_found |-> FALSE,
                   left |-> FALSE], TurnsLog2)

\* the count that is the estimate logged at 497 when the server reports more
\* pages than max_pages
file_count_Extrapolated(loop) ==
    IF loop.not_found THEN 0
    ELSE IF ~IsNone(loop.total_pages) /\ Val(loop.total_pages) > max_pages
            /\ Len(loop.all_files) > 0
    THEN (Len(loop.all_files) * Val(loop.total_pages)) \div loop.page
    ELSE Len(loop.all_files)

\* file_count = len(all_files) after the loop, 0 after a 404
file_count(loop) ==
    IF loop.not_found THEN 0 ELSE Len(loop.all_files)

\* the special handling that returns 0 when the commits or the search request
\* fails
large_count_ReturnsZero(commits, search) ==
    IF commits.exc # "none" THEN [heads |-> <<"commits">>, count |-> Some(0)]
    ELSE IF commits.status_code # 200
    THEN [heads |-> <<"commits">>, count |-> Some(0)]
    ELSE IF search.exc # "none"
    THEN [heads |-> <<"commits", "search">>, count |-> Some(0)]
    ELSE IF search.status_code = 200 /\ ~IsNone(search.x_total)
            /\ Val(search.x_total) > 0
    THEN [heads |-> <<"commits", "search">>, count |-> search.x_total]
    ELSE [heads |-> <<"commits", "search">>, count |-> Some(0)]

\* The special handling of a very large repository: heads are the HEAD
\* requests sent, count what is returned from inside the block (None: the
\* block is left without return and the standard counting follows).
large_count(commits, search) ==
    IF commits.exc # "none" THEN [heads |-> <<"commits">>, count |-> None]
    ELSE IF commits.status_code # 200
    THEN [heads |-> <<"commits">>, count |-> None]
    ELSE IF search.exc # "none"
    THEN [heads |-> <<"commits", "search">>, count |-> None]
    ELSE IF search.status_code = 200 /\ ~IsNone(search.x_total)
            /\ Val(search.x_total) > 0
    THEN [heads |-> <<"commits", "search">>, count |-> search.x_total]
    ELSE [heads |-> <<"commits", "search">>, count |-> Some(0)]

\* get_repository_file_count(project_id, headers): a.project, a.commits,
\* a.search are the answers to its requests and a.tree the tree the server
\* holds. value is the count returned, heads and requests the HEAD requests
\* and the tree pages it asked for.
get_repository_file_count(a) ==
    LET none == [value |-> 0, heads |-> <<>>, requests |-> <<>>]
    IN  IF a.project.exc # "none" \/ a.project.status_code # 200 THEN none
        ELSE
        LET project_info == Val(a.project.body)
            default_branch == Get(project_info, "default_branch", "")
            repo_size == Get(Get(project_info, "statistics", <<>>),
                             "repository_size", Zero)
            special == IF LargeRepository(repo_size)
                       THEN large_count(a.commits, a.search)
                       ELSE [heads |-> <<>>, count |-> None]
        IN  IF default_branch = "" THEN none
            ELSE IF ~IsNone(special.count)
            THEN [value |-> Val(special.count), heads |-> special.heads,
                  requests |-> <<>>]
            ELSE LET loop == tree_loop(a.tree)
                 IN  [value |-> file_count(loop), heads |-> special.heads,
                      requests |-> loop.requests]

NoTreeFault == [at |-> 0, kind |-> "none", status |-> 200]
TreeFaults ==
    {NoTreeFault,
     [at |-> 1, kind |-> "status", status |-> 404],
     [at |-> 2, kind |-> "status", status |-> 404],
     [at |-> 2, kind |-> "status", status |-> 500],
     [at |-> 2, kind |-> "Timeout", status |-> 0],
     [at |-> max_pages, kind |-> "ConnectionError", status |-> 0]}

PageContents ==
    {[odd |-> <<Blob>>, even |-> <<Blob>>],
     [odd |-> <<Blob, Blob>>, even |-> <<Blob, Blob>>],
     [odd |-> <<Blob, Dir, Blob>>, even |-> <<Dir>>],
     [odd |-> <<Dir>>, even |-> <<Blob, Dir, Blob>>]}

TreeSizes ==
    {0, 1, 2, max_pages - 1, max_pages, max_pages + 1, max_pages + 10}

TreeServers ==
    {[full |-> n, odd |-> c.odd, even |-> c.even, reports_total |-> r,
      next |-> x, fault |-> f] :
        n \in TreeSizes, c \in PageContents, r \in BOOLEAN,
        x \in {"honest", "absent"}, f \in TreeFaults}
    \cup
    {[full |-> n, odd |-> <<Blob>>, even |-> <<Blob, Dir, Blob>>,
      reports_total |-> FALSE, next |-> "always", fault |-> NoTreeFault] :
        n \in {2, max_pages + 10}}

\* project infos that end the function before any counting
UncountedProjects ==
    {Raised("Timeout"), Answered(404, None, None),
     Answered(200, None, Some([id |-> 2])),
     Answered(200, None,
              Some([id |-> 2, default_branch |-> "",
                    statistics |-> [repository_size |-> Bytes(12, 0)]]))}

\* project infos of repositories of at most 10000 MB
NormalProjects ==
    {Answered(200, None, Some([id |-> 2, default_branch |-> "main"])),
     Answered(200, None,
              Some([id |-> 2, default_branch |-> "main",
                    statistics |->
                        [repository_size |-> Bytes(9, 784 * MiB)]]))}

\* project infos of repositories of more than 10000 MB
LargeProjects ==
    {Answered(200, None,
              Some([id |-> 2, default_branch |-> "main",
                    statistics |-> [repository_size |-> b]])) :
        b \in {Bytes(9, 784 * MiB + 1), Bytes(12, 0)}}

HeadOk == Answered(200, Some(7), <<>>)
CommitsAnswers == {HeadOk, Answered(404, None, <<>>), Raised("Timeout")}
SearchAnswers ==
    {HeadOk, Answered(200, Some(0), <<>>), Answered(200, None, <<>>),
     Answered(403, None, <<>>), Raised("ConnectionError")}

FileCountArgs ==
    [project : UncountedProjects, commits : {HeadOk}, search : {HeadOk},
     tree : {t \in TreeServers : t.full = 2 /\ t.fault = NoTreeFault}]
    \cup [project : NormalProjects, commits : {HeadOk}, search : {HeadOk},
          tree : TreeServers]
    \cup [project : LargeProjects, commits : CommitsAnswers,
          search : SearchAnswers,
          tree : {t \in TreeServers : t.full = 2 /\ t.fault = NoTreeFault}]

\* get_repository_file_count called on its own
CallFileCount ==
    /\ call = "get_repository_file_count"
    /\ IsNone(ret)
    /\ ret' = Some(get_repository_file_count(args))
    /\ UNCHANGED <<call, args, fetchVars, runVars>>

(* get_all_branches_file_stats (gitlab-details.py) *)

\* branches[:10]
branches_limit == 10
max_pages_per_branch == 5
\* 'per_page': 100 of the tree requests
tree_per_page == 100

large_file_patterns ==
    <<".zip", ".tar", ".gz", ".iso", ".dmg", ".exe", ".deb", ".rpm", ".pkg",
      ".msi", ".war", ".ear", ".jar", ".pdf", ".mp4", ".mov", ".avi", ".mkv",
      ".mp3", ".wav", ".flac">>

\* A path is <<stem, extension>>, the empty path <<>>. str.lower() on the
\* extensions the servers below use.
Lower(ext) ==
    CASE ext = ".ZIP" -> ".zip"
      [] ext = ".Jar" -> ".jar"
      [] OTHER -> ext

\* any(file_path.lower().endswith(ext) for ext in large_file_patterns)
HasLargePattern(file_path) ==
    \E k \in DOMAIN large_file_patterns :
        Lower(file_path[2]) = large_file_patterns[k]

\* the threshold of 100 MB taken as `>=`
IsLargeFile_NotStrict(file_response) ==
    /\ file_response.exc = "none"
    /\ file_response.status_code = 200
    /\ ~IsNone(file_response.size)
    /\ Val(file_response.size) >= 100 * MiB

\* file_size > 100 * 1024 * 1024 for the answer to the HEAD of a file:
\* status 200 and an X-Gitlab-Size that int() reads (size is None if int()
\* raises ValueError)
IsLargeFile(file_response) ==
    /\ file_response.exc = "none"
    /\ file_response.status_code = 200
    /\ ~IsNone(file_response.size)
    /\ Val(file_response.size) > 100 * MiB

\* The server of one project. sv.branches answers the branch listing with
\* sv.n branches (the branch at sv.nameless has no name); every branch
\* has sv.pages tree pages of sv.width items: item 2 is a directory if
\* sv.dirs, item 3 has an empty path if sv.blank, items 1 and 3 have
\* extension sv.ext, the others ".txt"; the branches hold the same paths if
\* sv.shared. The tree request of page sv.fault.page of branch
\* sv.fault.branch fails. X-Next-Page is sv.next. sv.sizes says how the
\* HEAD of a file answers.
BranchItem(sv, b, pg, i) ==
    [type |-> IF sv.dirs /\ i = 2 THEN "tree" ELSE "blob",
     path |-> IF sv.blank /\ i = 3 THEN <<>>
              ELSE <<<<IF sv.shared THEN 0 ELSE b, pg, i>>,
                     IF i \in {1, 3} THEN sv.ext ELSE ".txt">>]

BranchTreePage(sv, b, pg) ==
    IF sv.fault.branch = b /\ sv.fault.page = pg /\ sv.fault.kind = "raise"
    THEN [exc |-> "Timeout", status_code |-> 0, items |-> <<>>,
          next_page |-> None]
    ELSE IF sv.fault.branch = b /\ sv.fault.page = pg
    THEN [exc |-> "none", status_code |-> 500, items |-> <<>>,
          next_page |-> None]
    ELSE [exc |-> "none", status_code |-> 200,
          items |-> IF pg > sv.pages THEN <<>>
                    ELSE [i \in 1..sv.width |-> BranchItem(sv, b, pg, i)],
          next_page |-> CASE sv.next = "absent" -> None
                          [] sv.next = "empty" -> Some("")
                          [] sv.next = "always" -> Some("next")
                          [] OTHER -> IF pg < sv.pages THEN Some("next")
                                      ELSE None]

\* the answer to the HEAD of file_path on branch b
FileHead(sv, file_path, b) ==
    CASE sv.sizes = "raise" ->
            [exc |-> "Timeout", status_code |-> 0, size |-> Some(0)]
      [] sv.sizes = "404" ->
            [exc |-> "none", status_code |-> 404,
             size |-> Some(100 * MiB + 1)]
      [] sv.sizes = "unreadable" ->
            [exc |-> "none", status_code |-> 200, size |-> None]
      [] sv.sizes = "threshold" ->
            [exc |-> "none", status_code |-> 200, size |-> Some(100 * MiB)]
      [] sv.sizes = "large from branch 2" ->
            [exc |-> "none", status_code |-> 200,
             size |-> Some(IF b >= 2 THEN 100 * MiB + 1 ELSE 0)]
      [] OTHER ->
            [exc |-> "none", status_code |-> 200,
             size |-> Some(100 * MiB + 1)]

\* the elements of a set of numbers, in increasing order
RECURSIVE Ascending(_)
Ascending(S) ==
    IF S = {} THEN <<>>
    ELSE LET m == CHOOSE x \in S : \A y \in S : x <= y
         IN  <<m>> \o Ascending(S \ {m})

\* `for item in items` with the blobs of empty path added to unique_files
for_items_KeepsBlank(sv, b, items, st) ==
    [st EXCEPT !.unique_files =
                  @ \cup {items[i].path :
                            i \in {j \in DOMAIN items :
                                      items[j].type = "blob"}}]

\* `for item in items` without `not large_file_found`: the size of every
\* blob with a large-file extension is looked up
for_items_KeepsLooking(sv, b, items, st) ==
    LET blobs == {i \in DOMAIN items :
                    items[i].type = "blob" /\ items[i].path # <<>>}
        candidates == {i \in blobs : HasLargePattern(items[i].path)}
        hits == {i \in candidates :
                    IsLargeFile(FileHead(sv, items[i].path, b))}
        sized == Ascending(candidates)
    IN  [st EXCEPT
            !.unique_files = @ \cup {items[i].path : i \in blobs},
            !.large_file_found = @ \/ hits # {},
            !.file_lookups =
                @ \o [k \in DOMAIN sized |-> <<b, items[sized[k]].path>>]]

\* `for item in items`: the paths of the blobs join unique_files; until a
\* large file is found, the size of every blob with a large-file extension
\* is looked up, in order.
for_items(sv, b, items, st) ==
    LET blobs == {i \in DOMAIN items :
                    items[i].type = "blob" /\ items[i].path # <<>>}
        candidates == {i \in blobs : HasLargePattern(items[i].path)}
        hits == {i \in candidates :
                    IsLargeFile(FileHead(sv, items[i].path, b))}
        looked == IF st.large_file_found THEN {}
                  ELSE IF hits = {} THEN candidates
                  ELSE {i \in candidates : \A h \in hits : i <= h}
        sized == Ascending(looked)
    IN  [st EXCEPT
            !.unique_files = @ \cup {items[i].path : i \in blobs},
            !.large_file_found = @ \/ hits # {},
            !.file_lookups =
                @ \o [k \in DOMAIN sized |-> <<b, items[sized[k]].path>>]]

\* `while page <= max_pages_per_branch` for branch b, from page pg; an
\* exception leaves the branch
RECURSIVE branch_pages(_, _, _, _)
branch_pages(sv, b, pg, st) ==
    IF pg > max_pages_per_branch THEN st
    ELSE
    LET tree_response == BranchTreePage(sv, b, pg)
        asked == [st EXCEPT !.tree_requests = Append(@, <<b, pg>>)]
    IN  IF tree_response.exc # "none" THEN asked
        ELSE IF tree_response.status_code # 200 THEN asked
        ELSE IF tree_response.items = <<>> THEN asked
        ELSE
        LET done == for_items(sv, b, tree_response.items, asked)
        IN  IF IsNone(tree_response.next_page)
               \/ Val(tree_response.next_page) = ""
            THEN done
            ELSE IF done.large_file_found \in BOOLEAN
            THEN branch_pages(sv, b, pg + 1, done)
            ELSE done

\* `for idx, branch in enumerate(branches_to_check)` from branch b on
RECURSIVE for_branches(_, _, _, _)
for_branches(sv, branches_to_check, b, st) ==
    IF b > Len(branches_to_check) THEN st
    ELSE LET after == IF Get(branches_to_check[b], "name", "") = "" THEN st
                      ELSE branch_pages(sv, b, 1, st)
         IN  IF after.large_file_found \in BOOLEAN
             THEN for_branches(sv, branches_to_check, b + 1, after)
             ELSE after

\* get_all_branches_file_stats(project_id, headers)
get_all_branches_file_stats(sv) ==
    LET nothing == [total_files |-> 0, has_large_file |-> FALSE,
                  tree_requests |-> <<>>, file_lookups |-> <<>>]
    IN  IF sv.branches.exc # "none" \/ sv.branches.status_code # 200
        THEN nothing
        ELSE
        LET branches == sv.branches.body
            branches_to_check ==
                IF Len(branches) > branches_limit
                THEN SubSeq(branches, 1, branches_limit) ELSE branches
            st == for_branches(sv, branches_to_check, 1,
                               [unique_files |-> {},
                                large_file_found |-> FALSE,
                                tree_requests |-> <<>>,
                                file_lookups |-> <<>>])
        IN  [total_files |-> Cardinality(st.unique_files),
             has_large_file |-> st.large_file_found,
             tree_requests |-> st.tree_requests,
             file_lookups |-> st.file_lookups]

\* the branch listing of n branches, the one at nameless without name
BranchListing(n, nameless) ==
    Answered(200, None,
             [b \in 1..n |-> IF b = nameless THEN [commit |-> b]
                             ELSE [name |-> <<"branch", b>>, commit |-> b]])

NoBranchFault == [branch |-> 0, page |-> 0, kind |-> "none"]

\* servers of few branches and short pages
SmallBranchServers ==
    {[branches |-> BranchListing(n, nameless), n |-> n, pages |-> pages,
      width |-> 3, dirs |-> d, blank |-> bl, shared |-> sh, ext |-> ext,
      fault |-> f, next |-> nx, sizes |-> sz] :
        n \in {0, 2, 3}, nameless \in {0, 1}, pages \in {0, 2},
        d \in BOOLEAN, bl \in BOOLEAN, sh \in BOOLEAN,
        ext \in {".txt", ".ZIP"},
        f \in {NoBranchFault, [branch |-> 2, page |-> 2, kind |-> "raise"],
               [branch |-> 1, page |-> 2, kind |-> "status"]},
        nx \in {"honest", "empty"},
        sz \in {"large from branch 2", "threshold"}}

\* servers of about branches_limit branches and max_pages_per_branch pages
WideBranchServers ==
    {[branches |-> BranchListing(n, 0), n |-> n, pages |-> pages,
      width |-> 1, dirs |-> FALSE, blank |-> FALSE, shared |-> sh,
      ext |-> ext, fault |-> NoBranchFault, next |-> nx, sizes |-> sz] :
        n \in {branches_limit - 1, branches_limit, branches_limit + 2},
        pages \in {max_pages_per_branch, max_pages_per_branch + 1},
        sh \in BOOLEAN, ext \in {".txt", ".Jar"},
        nx \in {"honest", "always", "absent"},
        sz \in {"raise", "404", "unreadable", "large"}}

\* the same with full pages
FullBranchServers ==
    {[branches |-> BranchListing(n, 0), n |-> n, pages |-> pages,
      width |-> tree_per_page, dirs |-> FALSE, blank |-> FALSE,
      shared |-> sh, ext |-> ".txt", fault |-> NoBranchFault,
      next |-> "honest", sizes |-> "large"] :
        n \in {branches_limit, branches_limit + 2},
        pages \in {max_pages_per_branch, max_pages_per_branch + 1},
        sh \in BOOLEAN}

\* servers whose branch listing fails
NoBranchServers ==
    {[branches |-> a, n |-> 2, pages |-> 2, width |-> 3, dirs |-> FALSE,
      blank |-> FALSE, shared |-> FALSE, ext |-> ".ZIP",
      fault |-> NoBranchFault, next |-> "honest", sizes |-> "large"] :
        a \in {Raised("Timeout"), Answered(403, None, <<>>)}}

BranchServers ==
    SmallBranchServers \cup WideBranchServers \cup FullBranchServers
    \cup NoBranchServers

\* get_all_branches_file_stats called on its own
CallBranchStats ==
    /\ call = "get_all_branches_file_stats"
    /\ IsNone(ret)
    /\ ret' = Some(get_all_branches_file_stats(args))
    /\ UNCHANGED <<call, args, fetchVars, runVars>>

(* check_for_pipeline_config (gitlab-details.py) *)

pipeline_files ==
    <<".gitlab-ci.yml", ".gitlab-ci.yaml", "gitlab-ci.yml", "gitlab-ci.yaml",
      ".gitlab/ci.yml", ".gitlab/ci.yaml">>

\* the loop over the files that gives up at the first probe that raises
RECURSIVE for_pipeline_files_StopsOnError(_, _, _)
for_pipeline_files_StopsOnError(probes, k, probed) ==
    IF k > Len(pipeline_files) THEN [value |-> FALSE, probed |-> probed]
    ELSE LET asked == Append(probed, pipeline_files[k])
         IN  IF probes[k].exc # "none"
             THEN [value |-> FALSE, probed |-> asked]
             ELSE IF probes[k].status_code = 200
             THEN [value |-> TRUE, probed |-> asked]
             ELSE for_pipeline_files_StopsOnError(probes, k + 1, asked)

\* `for pipeline_file in pipeline_files` from file k on: probes[k] is the
\* answer to the HEAD of file k, probed the files asked for so far
RECURSIVE for_pipeline_files(_, _, _)
for_pipeline_files(probes, k, probed) ==
    IF k > Len(pipeline_files) THEN [value |-> FALSE, probed |-> probed]
    ELSE LET asked == Append(probed, pipeline_files[k])
         IN  IF probes[k].exc # "none"
             THEN for_pipeline_files(probes, k + 1, asked)
             ELSE IF probes[k].status_code = 200
             THEN [value |-> TRUE, probed |-> asked]
             ELSE for_pipeline_files(probes, k + 1, asked)

\* check_for_pipeline_config(project_id, headers): a.project answers the
\* request for the project, a.probes the HEAD of each file
check_for_pipeline_config(a) ==
    IF a.project.exc # "none" \/ a.project.status_code # 200
    THEN [value |-> FALSE, probed |-> <<>>]
    ELSE IF Get(Val(a.project.body), "default_branch", "") = ""
    THEN [value |-> FALSE, probed |-> <<>>]
    ELSE for_pipeline_files(a.probes, 1, <<>>)

ProbeAnswers ==
    {Answered(200, None, <<>>), Answered(404, None, <<>>),
     Raised("Timeout")}

PipelineProjects ==
    {Raised("ConnectionError"), Answered(500, None, None),
     Answered(200, None, Some([id |-> 2])),
     Answered(200, None, Some([id |-> 2, default_branch |-> ""])),
     Answered(200, None, Some([id |-> 2, default_branch |-> "main"]))}

PipelineArgs ==
    [project : PipelineProjects,
     probes : [DOMAIN pipeline_files -> {Answered(404, None, <<>>)}]]
    \cup [project : {Answered(200, None,
                              Some([id |-> 2, default_branch |-> "main"]))},
          probes : [DOMAIN pipeline_files -> ProbeAnswers]]

\* check_for_pipeline_config called on its own
CallPipelineConfig ==
    /\ call = "check_for_pipeline_config"
    /\ IsNone(ret)
    /\ ret' = Some(check_for_pipeline_config(args))
    /\ UNCHANGED <<call, args, fetchVars, runVars>>

CallArgs(f) ==
    CASE f = "process_project" ->
            [project : SizedProjects, a : SizedAnswers]
            \cup [project : TaggedProjects, a : FailureAnswers]
            \cup [project : {Tag(ProjectItem(2), <<"eng">>, <<"eng">>)},
                  a : ObjectAnswers]
      [] f = "bytes_to_mb" ->
            [bytes_value : {None} \cup {Some(b) : b \in ByteCounts}]
      [] f \in CountProbes ->
            [head : HeadAnswers, get : GetAnswers]
      [] f = "get_repository_file_count" -> FileCountArgs
      [] f = "get_all_branches_file_stats" -> BranchServers
      [] f = "check_for_pipeline_config" -> PipelineArgs

InitCall ==
    /\ call \in {"process_project", "bytes_to_mb",
                 "get_repository_file_count",
                 "get_all_branches_file_stats",
                 "check_for_pipeline_config"} \cup CountProbes
    /\ args \in CallArgs(call)
    /\ ret = None
    /\ FetchIdle
    /\ RunIdle

NextCall ==
    \/ CallProcessProject
    \/ CallBytesToMb
    \/ CallCountProbe
    \/ CallFileCount
    \/ CallBranchStats
    \/ CallPipelineConfig

SpecCall == InitCall /\ [][NextCall]_vars

----------------------------------------------------------------------------
(* Claims about the listing traversal *)

NoFault == \A i \in 1..Len(reqlog) : reqlog[i][2] = "none"

\* C1: against a server that serves one finite ordered collection as
\* consecutive pages, whatever its page size and whatever the final page says
\* about a next page, a call that met no failure returns exactly the items of
\* the collection in server order, and it asked for the pages 1, 2, ... in
\* order, each once.
C1_ListingEqualsCollection ==
    (fpc = "returned" /\ srv.kind = "paged" /\ NoFault) =>
        /\ result = Some(srv.coll)
        /\ \A i \in 1..Len(reqlog) : reqlog[i][1] = i

C1_Witness ==
    /\ fpc = "returned"
    /\ srv.kind = "paged"
    /\ NoFault
    /\ Len(srv.coll) = 3
    /\ srv.ps = 2
    /\ srv.lastHdr = "next"
    /\ Len(reqlog) = 3
    /\ result = Some(srv.coll)

\* C2: a page request that fails (non-200 status, timeout, connection error,
\* unparsable body) is the last request of the call, and the call returns
\* None, not the items accumulated from the pages before it.
C2_FailureReturnsNone ==
    \A i \in 1..Len(reqlog) :
        reqlog[i][2] # "none" =>
            /\ i = Len(reqlog)
            /\ fpc \in {"handle", "returned"}
            /\ fpc = "returned" => result = None

C2_Witness ==
    /\ Len(reqlog) >= 2
    /\ reqlog[Len(reqlog)][2] \in {"non200", "Timeout", "ConnectionError"}
    /\ all_items # <<>>
    /\ fpc = "returned"
    /\ result = None

\* C3 as claimed: whatever the server answers, every call eventually returns.
C3_ReturnsWhateverTheServer == <>(fpc = "returned")

\* C3 amended: against a server that serves a finite collection as consecutive
\* pages (failures allowed), every call eventually returns, after at most one
\* request per page of the collection plus one.
C3_ReturnsOnFiniteCollection ==
    /\ (srv.kind = "paged") => <>(fpc = "returned")
    /\ [](srv.kind = "paged" =>
            Len(reqlog) <= NumPages(Len(srv.coll), srv.ps) + 1)

C3_Witness ==
    /\ srv.kind = "paged"
    /\ fpc = "returned"
    /\ srv.ps = 1
    /\ Len(reqlog) = Len(srv.coll) + 1
    /\ Len(reqlog) >= 3

----------------------------------------------------------------------------
(* Claims about the way a run ends *)

Untouched == outputFile = Some(PriorReport) /\ writes = 0

\* C4: a run for which no token could be resolved, or whose groups listing
\* failed, ends with exit code 1, has issued no aggregation request and has
\* written no output file.
C4_FatalExit ==
    /\ (pc # "config" /\ ~Truthy(GITLAB_TOKEN)) =>
            /\ pc = "exited"
            /\ exitCode = Some(1)
            /\ lookups = 0
            /\ Untouched
    /\ (pc \notin {"config", "load_filter", "fetch_groups"} /\ IsNone(groups)) =>
            /\ pc = "exited"
            /\ exitCode = Some(1)
            /\ lookups = 0
            /\ Untouched

C4_Witness ==
    /\ pc = "exited"
    /\ Truthy(GITLAB_TOKEN)
    /\ IsNone(groups)
    /\ exitCode = Some(1)
    /\ lookups = 0
    /\ Untouched

\* the group loop of gitlab-details.py is over and the filter has been applied
FilterApplied ==
    /\ script = "details"
    /\ pc \in {"exited", "aggregate", "finished"}
    /\ ~IsNone(groups)
    /\ Val(groups) # <<>>
    /\ gi = Len(Val(groups))

\* C5: a run that finds zero groups, or in gitlab-details.py zero projects,
\* or zero projects after the filter, ends with exit code 0 and leaves the
\* file at the output path as it was.
C5_NothingToProcess ==
    /\ (~IsNone(groups) /\ Val(groups) = <<>>) =>
            /\ pc = "exited"
            /\ exitCode = Some(0)
            /\ Untouched
    /\ (FilterApplied /\ projects = <<>>) =>
            /\ pc = "exited"
            /\ exitCode = Some(0)
            /\ Untouched

C5_Witness ==
    /\ FilterApplied
    /\ all_projects # <<>>
    /\ projects = <<>>
    /\ pc = "exited"
    /\ exitCode = Some(0)
    /\ Untouched

----------------------------------------------------------------------------
(* Claims about the filter *)

\* the file is read and has both columns
Readable(f) ==
    /\ f.state = "csv"
    /\ {"Migrate Repo", "Name"} \subseteq f.fieldnames

\* no row has, once trimmed, a configured value in its 'Migrate Repo' cell
NoRowMatches(f, mrv) ==
    \A i \in 1..Len(f.rows) : Strip(f.rows[i].migrate) \notin SeqToSet(mrv)

\* C6: with a filter file that is read and has both columns, but no row of
\* which carries a configured value in 'Migrate Repo', the selected set is
\* the full discovered set.
C6_NoMatchingRowSelectsAll ==
    (/\ pc = "filter: applied"
     /\ Truthy(PROJECT_LIST_FILE)
     /\ Readable(csvFile)
     /\ NoRowMatches(csvFile, MIGRATE_REPO_VALUES)) =>
        /\ IsNone(project_filter)
        /\ projects = all_projects

C6_Witness ==
    /\ pc = "filter: applied"
    /\ Truthy(PROJECT_LIST_FILE)
    /\ Readable(csvFile)
    /\ Len(csvFile.rows) = 2
    /\ MIGRATE_REPO_VALUES # <<>>
    /\ NoRowMatches(csvFile, MIGRATE_REPO_VALUES)
    /\ Len(all_projects) = 3
    /\ projects = all_projects

\* the allow-list names none of the discovered projects
MatchesNothing ==
    /\ ~IsNone(project_filter)
    /\ all_projects # <<>>
    /\ \A i \in 1..Len(all_projects) :
        /\ all_projects[i].name \notin Val(project_filter)
        /\ all_projects[i].path \notin Val(project_filter)

\* C7 as claimed: with an allow-list that matches none of the discovered
\* projects, the run selects all the discovered projects.
C7_NoMatchSelectsAll ==
    (FilterApplied /\ MatchesNothing) => projects = all_projects

\* C7 amended: with an allow-list that matches none of the discovered
\* projects, the run selects no project: it ends with exit code 0, has issued
\* no aggregation request, has no record and leaves the output file as it was.
C7_NoMatchSelectsNone ==
    (FilterApplied /\ MatchesNothing) =>
        /\ projects = <<>>
        /\ pc = "exited"
        /\ exitCode = Some(0)
        /\ lookups = 0
        /\ stats = <<>>
        /\ Untouched

C7_Witness ==
    /\ FilterApplied
    /\ MatchesNothing
    /\ Len(all_projects) >= 2
    /\ projects = <<>>
    /\ exitCode = Some(0)
    /\ Untouched

----------------------------------------------------------------------------
(* Claims about the records *)

\* the elements of seq at the positions where mask is want
RECURSIVE Pick(_, _, _)
Pick(seq, mask, want) ==
    IF seq = <<>> THEN <<>>
    ELSE LET n == Len(seq)
             before == Pick(SubSeq(seq, 1, n - 1), mask, want)
         IN  IF mask[n] = want THEN Append(before, seq[n]) ELSE before

\* the entities the loop has gone through so far
Processed == SubSeq(Selected, 1, idx)

\* C8: in a run that reaches aggregation, each entity the loop has gone
\* through has either its record in stats or its name in the failed list, in
\* loop order, never both and never neither; the loop goes through every
\* selected entity whatever failed before it, so that at the end the number of
\* records is the discovered count minus the filtered-out count minus the
\* failed count.
C8_OneRecordOrOneFailure ==
    pc \in {"aggregate", "finished"} =>
        /\ \E mask \in [1..idx -> BOOLEAN] :
            /\ [i \in 1..Len(stats) |-> stats[i].id]
                   = Pick([i \in 1..idx |-> Processed[i].id], mask, TRUE)
            /\ failed = Pick([i \in 1..idx |-> Processed[i].name], mask, FALSE)
        /\ Len(stats) + Len(failed) = idx
        /\ pc = "finished" =>
            /\ idx = Len(Selected)
            /\ LET discovered == IF script = "details" THEN Len(all_projects)
                                 ELSE Len(Val(groups))
                   filtered_out == discovered - Len(Selected)
               IN  Len(stats) = discovered - filtered_out - Len(failed)

C8_Witness ==
    /\ pc = "finished"
    /\ Len(Selected) = 3
    /\ Len(all_projects) > 3
    /\ failed = <<Selected[1].name>>
    /\ Len(stats) = 2
    /\ stats[2].id = Selected[3].id

\* the columns of the report of the script
Fieldnames ==
    IF script = "details" THEN ProjectFieldnames ELSE GroupFieldnames

\* the lookups of a that failed leave their defaults in record r of project p
Degraded(p, a, r) ==
    /\ a.contributors.status_code # 200 =>
            r.contributors = 0 /\ r.total_commits = 0
    /\ (a.mr.exc # "none" \/ a.mr.status_code # 200) => r.merge_requests = 0
    /\ a.repo.project.exc # "none" =>
            /\ r.file_count = 0
            /\ r.all_branches_file_count = 0
            /\ r.branch_count = 0
            /\ r.total_objects = 0
            /\ r.has_large_file_100mb = FALSE
            /\ r.pipeline = FALSE
    /\ "visibility" \notin DOMAIN p => r.visibility = "N/A"
    /\ "last_activity_at" \notin DOMAIN p => r.last_activity = "N/A"
    /\ "web_url" \notin DOMAIN p => r.web_url = "N/A"
    /\ "star_count" \notin DOMAIN p => r.stars = 0

\* C9: every record, and every row written, has exactly the columns of the
\* fieldnames list of its report, 28 for a project and 14 for a group,
\* whichever lookups failed; a failed lookup leaves 0, False or "N/A" in its
\* columns.
C9_FixedColumns ==
    script \in {"details", "groups"} =>
        /\ Len(Fieldnames) = IF script = "details" THEN 28 ELSE 14
        /\ Cardinality(SeqToSet(Fieldnames)) = Len(Fieldnames)
        /\ \A i \in 1..Len(stats) : DOMAIN stats[i] = SeqToSet(Fieldnames)
        /\ (pc = "finished" /\ stats # <<>>) =>
                outputFile = Some([fieldnames |-> Fieldnames, rows |-> stats])
        /\ (script = "details" /\ pc = "aggregate" /\ idx = 0) =>
                \A i \in 1..Len(projects), a \in LookupAnswers :
                    LET out == process_project(projects[i], a)
                    IN  ~out.raised =>
                            /\ DOMAIN out.record = SeqToSet(Fieldnames)
                            /\ Degraded(projects[i], a, out.record)
        /\ (script = "groups" /\ pc = "aggregate" /\ idx = 0) =>
                \A i \in 1..Len(Val(groups)), a \in GroupAnswers :
                    LET out == process_group(Val(groups)[i], a)
                    IN  ~out.raised =>
                            /\ DOMAIN out.record = SeqToSet(Fieldnames)
                            /\ "visibility" \notin DOMAIN Val(groups)[i] =>
                                    out.record.visibility = "N/A"

C9_Witness ==
    /\ script = "details"
    /\ pc = "finished"
    /\ \E i \in 1..Len(stats) :
        /\ stats[i].visibility = "N/A"
        /\ stats[i].contributors = 0
        /\ stats[i].merge_requests = 0
        /\ stats[i].file_count = 0
        /\ stats[i].pipeline = FALSE
        /\ DOMAIN Val(outputFile).rows[i] = SeqToSet(ProjectFieldnames)

\* <<id, group name, group path>> of tagged projects
Triples(ps) ==
    [i \in 1..Len(ps) |-> <<ps[i].id, ps[i]._group_name, ps[i]._group_path>>]

\* <<id, group name, group path>> of the projects the listings of the first n
\* groups returned, each with the name and the full path of the group listed
RECURSIVE TagsUpTo(_)
TagsUpTo(n) ==
    IF n = 0 THEN <<>>
    ELSE LET group == Val(groups)[n]
             found == IF IsNone(listed[n]) THEN <<>> ELSE Val(listed[n])
         IN  TagsUpTo(n - 1)
             \o [k \in 1..Len(found) |->
                    <<found[k].id, group.name, group.full_path>>]

\* two groups with 3 and 0 projects, an allow-list that names exactly one of
\* the three
Scenario ==
    /\ Len(Val(groups)) = 2
    /\ Len(listed) = 2
    /\ ~IsNone(listed[1]) /\ Len(Val(listed[1])) = 3
    /\ listed[2] = Some(<<>>)
    /\ ~IsNone(project_filter)
    /\ Cardinality({k \in 1..3 :
            \/ Val(listed[1])[k].name \in Val(project_filter)
            \/ Val(listed[1])[k].path \in Val(project_filter)}) = 1

----------------------------------------------------------------------------
(* Claims about the sizes of a project record *)

\* process_project has returned a record
RecordBuilt ==
    /\ call = "process_project"
    /\ ~IsNone(ret)
    /\ ~Val(ret).raised

\* the sizes the request for the project supplied, 0 where it supplied none
ApiSizes ==
    LET pr == args.a.repo.project
    IN  IF pr.exc = "none" /\ pr.status_code = 200 /\ ~IsNone(pr.body)
           /\ "statistics" \in DOMAIN Val(pr.body)
        THEN Val(pr.body).statistics
        ELSE [repository_size |-> Zero, storage_size |-> Zero]

\* the sizes embedded in the listing payload, 0 where it has none
ListingSizes ==
    IF "statistics" \in DOMAIN args.project
    THEN Val(args.project.statistics)
    ELSE [repository_size |-> Zero, storage_size |-> Zero]

\* the sizes of the record: those of the listing payload when the request for
\* the project supplied neither a repository size nor a storage size
FinalSizes ==
    IF ApiSizes.repository_size = Zero /\ ApiSizes.storage_size = Zero
    THEN ListingSizes
    ELSE ApiSizes

\* b > k * 1024^3
Over(b, k) == b.gib > k \/ (b.gib = k /\ b.rem >= 1)

\* C11: in every project record, with S the storage size total_size_mb is
\* derived from, exceeds_2gb is S > 2 * 1024^3 and exceeds_6gb is
\* S > 6 * 1024^3, strictly; exceeds_6gb implies exceeds_2gb; this also when
\* S came from the listing payload.
C11_FlagsFollowSize ==
    RecordBuilt =>
        LET r == Val(ret).record
            S == FinalSizes.storage_size
        IN  /\ r.total_size_mb = bytes_to_mb(Some(S))
            /\ r.exceeds_2gb = Over(S, 2)
            /\ r.exceeds_6gb = Over(S, 6)
            /\ r.exceeds_6gb => r.exceeds_2gb
            /\ S = Bytes(2, 0) => ~r.exceeds_2gb /\ ~r.exceeds_6gb
            /\ S = Bytes(6, 1) => r.exceeds_2gb /\ r.exceeds_6gb

\* the size is exactly 2 * 1024^3 and came from the listing payload
C11_Witness ==
    /\ RecordBuilt
    /\ ApiSizes.storage_size = Zero
    /\ ApiSizes.repository_size = Zero
    /\ ListingSizes.storage_size = Bytes(2, 0)
    /\ Val(ret).record.total_size_mb = 204800
    /\ ~Val(ret).record.exceeds_2gb

\* C12 as claimed: the record has the storage size of the request for the
\* project when that is not 0, and otherwise the one of the listing payload.
C12_ListingWhenNoApiStorage ==
    RecordBuilt =>
        LET r == Val(ret).record
            S == IF ApiSizes.storage_size # Zero THEN ApiSizes.storage_size
                 ELSE ListingSizes.storage_size
        IN  /\ r.total_size_mb = bytes_to_mb(Some(S))
            /\ r.exceeds_2gb = Over(S, 2)
            /\ r.exceeds_6gb = Over(S, 6)

\* C12 amended: the record has the two sizes of the request for the project
\* unless that supplied neither (repository size 0 and storage size 0); only
\* then has it the two sizes of the listing payload. A request that supplied
\* a repository size and no storage size leaves storage size 0 in the record,
\* whatever the listing payload holds.
C12_ListingWhenNoApiSizes ==
    RecordBuilt =>
        LET r == Val(ret).record
            none == ApiSizes.repository_size = Zero
                    /\ ApiSizes.storage_size = Zero
        IN  /\ none =>
                /\ r.total_size_mb = bytes_to_mb(Some(ListingSizes.storage_size))
                /\ r.repository_size_mb =
                       bytes_to_mb(Some(ListingSizes.repository_size))
                /\ r.exceeds_2gb = Over(ListingSizes.storage_size, 2)
            /\ ~none =>
                /\ r.total_size_mb = bytes_to_mb(Some(ApiSizes.storage_size))
                /\ r.repository_size_mb =
                       bytes_to_mb(Some(ApiSizes.repository_size))
                /\ r.exceeds_2gb = Over(ApiSizes.storage_size, 2)

\* the request supplied no size, the listing payload a storage size above 6 GiB
C12_Witness ==
    /\ RecordBuilt
    /\ args.a.repo.project.exc = "Timeout"
    /\ ListingSizes.storage_size = Bytes(6, 1)
    /\ Val(ret).record.total_size_mb = 614400
    /\ Val(ret).record.exceeds_6gb

----------------------------------------------------------------------------
(* Claims about bytes_to_mb *)

BytesToMbReturned == call = "bytes_to_mb" /\ ~IsNone(ret)

\* b1 <= b2
AtMost(b1, b2) == b1.gib < b2.gib \/ (b1.gib = b2.gib /\ b1.rem <= b2.rem)

\* C15: bytes_to_mb returns 0 for None and for 0, 1.0 for 1048576 and, in
\* hundredths of a megabyte, a hundredth nearest to b / 1048576 for every byte
\* count b; it never returns less for a larger byte count.
C15_BytesToMb ==
    BytesToMbReturned =>
        LET h == Val(ret)
        IN  /\ IsNone(args.bytes_value) => h = 0
            /\ ~IsNone(args.bytes_value) =>
                LET b == Val(args.bytes_value)
                IN  /\ b = Zero => h = 0
                    /\ b = Bytes(0, MiB) => h = 100
                    /\ b.gib = 0 =>
                        /\ 2 * (h * MiB - 100 * b.rem) <= MiB
                        /\ 2 * (100 * b.rem - h * MiB) <= MiB
                    /\ b.rem = 0 => h = 102400 * b.gib
                    /\ \A c \in ByteCounts :
                        AtMost(c, b) => bytes_to_mb(Some(c)) <= h

\* 393216 bytes are 0.375 MB, returned as 0.38
C15_Witness ==
    /\ BytesToMbReturned
    /\ args.bytes_value = Some(Bytes(0, 393216))
    /\ ret = Some(38)

----------------------------------------------------------------------------
(* Claims about the failures of the lookups of a project *)

\* process_project has returned, and one lookup at most had failed
LookupsDone ==
    /\ call = "process_project"
    /\ ~IsNone(ret)
    /\ args.a \in FailureAnswers

\* the record of the same project when every lookup answers
Reference == process_project(args.project, AllOk).record

----------------------------------------------------------------------------
(* Claims about the write of the report *)

\* C14 as claimed: every run that does not exit early writes the output file
\* exactly once.
C14_WrittenInEveryCompleteRun ==
    pc = "finished" => writes = 1

\* C14 amended: a run writes the output file at most once, and only in the
\* step that ends it after the loop, when every selected entity has its record
\* or its entry in the failed list; the file then holds all the records of the
\* run, in order. The write happens if and only if the run has at least one
\* record: a run that ends with every selected entity failed writes nothing
\* and leaves the prior file. No step before or inside the loop and no
\* early exit writes.
C14_WrittenOnceAtTheEnd ==
    /\ [](/\ writes <= 1
          /\ pc # "finished" => (writes = 0 /\ Untouched)
          /\ pc = "finished" =>
                /\ idx = Len(Selected)
                /\ Len(stats) + Len(failed) = Len(Selected)
                /\ writes = 1 <=> stats # <<>>
                /\ stats = <<>> => Untouched
                /\ stats # <<>> =>
                    /\ ~IsNone(outputFile)
                    /\ Val(outputFile).fieldnames = Fieldnames
                    /\ Val(outputFile).rows =
                           [i \in 1..Len(stats) |->
                               CsvLine(Fieldnames, stats[i])])
    /\ [][(writes' # writes \/ outputFile' # outputFile) =>
              /\ pc = "aggregate"
              /\ idx = Len(Selected)
              /\ pc' = "finished"
              /\ writes' = writes + 1
              /\ stats' = stats]_vars

\* a run of three entities, one failed, has written its two records at the end
C14_Witness ==
    /\ pc = "finished"
    /\ writes = 1
    /\ Len(Selected) = 3
    /\ Len(failed) = 1
    /\ ~IsNone(outputFile)
    /\ Len(Val(outputFile).rows) = 2
    /\ Val(outputFile).rows[2].id = stats[2].id

----------------------------------------------------------------------------
(* Claims about the count probes *)

\* a count probe has returned
ProbeReturned == call \in CountProbes /\ ~IsNone(ret)

\* the HEAD answered 200 with X-Total
HeadCounts ==
    /\ args.head.exc = "none"
    /\ args.head.status_code = 200
    /\ ~IsNone(args.head.x_total)

\* the number of GET requests sent
Gets == Cardinality({i \in DOMAIN Val(ret).requests :
                        Val(ret).requests[i] = "GET"})

\* what the fallback GET gives
GetCount ==
    IF args.get.exc # "none" \/ args.get.status_code # 200 THEN 0
    ELSE IF ~IsNone(args.get.x_total) THEN Val(args.get.x_total)
    ELSE Len(args.get.body)

----------------------------------------------------------------------------
(* Claims about get_repository_file_count *)

\* get_repository_file_count has returned, for a project that answered with
\* a default branch
FileCountReturned ==
    /\ call = "get_repository_file_count"
    /\ ~IsNone(ret)
    /\ args.project.exc = "none"
    /\ args.project.status_code = 200
    /\ Get(Val(args.project.body), "default_branch", "") # ""

\* the repository of the project is of more than 10000 MB
IsLarge ==
    LargeRepository(Get(Get(Val(args.project.body), "statistics", <<>>),
                        "repository_size", Zero))

\* the entries of type blob on the pages of the tree
BlobsOn(t, pages) ==
    Cardinality(UNION {{<<p, i>> : i \in {j \in DOMAIN TreePage(t, p).items :
                                    TreePage(t, p).items[j].type = "blob"}} :
                        p \in pages})

\* a requested page answered 404
NotFound(t, requests) ==
    \E i \in DOMAIN requests : TreePage(t, requests[i]).status_code = 404

\* what the search request gives: its total if positive, else 0
SearchCount ==
    IF args.search.status_code = 200 /\ ~IsNone(args.search.x_total)
       /\ Val(args.search.x_total) > 0
    THEN Val(args.search.x_total) ELSE 0

C18_AtMostFiftyPagesOfBlobs ==
    (FileCountReturned /\ ~IsLarge) =>
        LET r == Val(ret)
        IN  /\ r.heads = <<>>
            /\ Len(r.requests) <= max_pages
            /\ \A i \in DOMAIN r.requests : r.requests[i] = i
            /\ r.value = IF NotFound(args.tree, r.requests) THEN 0
                         ELSE BlobsOn(args.tree, SeqToSet(r.requests))
            /\ r.value <= BlobsOn(args.tree, 1..max_pages)

\* a tree of more than 50 pages, with directories: 50 pages read, the blobs
\* of the 25 odd pages counted
C18_Witness ==
    /\ FileCountReturned
    /\ ~IsLarge
    /\ args.tree.full > max_pages
    /\ args.tree.odd = <<Blob, Dir, Blob>>
    /\ args.tree.even = <<Dir>>
    /\ Len(Val(ret).requests) = max_pages
    /\ Val(ret).value = max_pages

\* the server reports more pages than max_pages, and no request fails
ReportsMore ==
    /\ FileCountReturned
    /\ ~IsLarge
    /\ args.tree.reports_total
    /\ args.tree.full > max_pages

\* files counted so far, divided by the pages read, times the pages reported
Extrapolated ==
    (BlobsOn(args.tree, SeqToSet(Val(ret).requests)) * args.tree.full)
        \div Len(Val(ret).requests)

\* C19 as claimed: when the server reports more tree pages than 50, the file
\* count is the extrapolated estimate.
C19_CountIsEstimate ==
    (ReportsMore /\ args.tree.fault = NoTreeFault
                 /\ args.tree.next = "honest") =>
        Val(ret).value = Extrapolated

\* C19 amended: when the server reports more tree pages than 50, the file
\* count is the number of blobs on the pages read (at most the first 50), 0
\* after a 404: a minimum count. The extrapolated estimate is only logged; the
\* count returned, when positive, is less than it.
C19_CountIsOfPagesRead ==
    ReportsMore =>
        LET r == Val(ret)
        IN  /\ r.value = IF NotFound(args.tree, r.requests) THEN 0
                         ELSE BlobsOn(args.tree, SeqToSet(r.requests))
            /\ (args.tree.fault = NoTreeFault /\ r.value > 0) =>
                    r.value < Extrapolated

\* 60 pages of two blobs reported: 100 files counted, 120 estimated
C19_Witness ==
    /\ ReportsMore
    /\ args.tree.fault = NoTreeFault
    /\ args.tree.full = max_pages + 10
    /\ Len(Val(ret).requests) = max_pages
    /\ Val(ret).value = 2 * max_pages
    /\ Extrapolated = 2 * (max_pages + 10)

----------------------------------------------------------------------------
(* Claims about get_all_branches_file_stats *)

\* get_all_branches_file_stats has returned, the branch listing having
\* answered
BranchStatsReturned ==
    /\ call = "get_all_branches_file_stats"
    /\ ~IsNone(ret)
    /\ args.branches.exc = "none"
    /\ args.branches.status_code = 200

\* the non-empty paths of the blobs on the tree pages in requests
BlobPaths(sv, requests) ==
    UNION {{BranchTreePage(sv, q[1], q[2]).items[i].path :
                i \in {j \in DOMAIN BranchTreePage(sv, q[1], q[2]).items :
                          LET item == BranchTreePage(sv, q[1], q[2]).items[j]
                          IN  item.type = "blob" /\ item.path # <<>>}} :
            q \in requests}

\* C20: get_all_branches_file_stats requests tree pages of the first 10
\* branches of the listing only, branch after branch in listing order, at
\* most pages 1 to 5 of a branch, in order; total_files is the number of
\* distinct non-empty blob paths on the pages requested (a path of several
\* branches counted once), so at most 10*5*100; an 11th or later branch
\* contributes nothing.
C20_FirstTenBranchesFivePages ==
    BranchStatsReturned =>
        LET r == Val(ret)
            reqs == r.tree_requests
        IN  /\ \A k \in DOMAIN reqs :
                /\ reqs[k][1] \in 1..Min(args.n, branches_limit)
                /\ reqs[k][2] \in 1..max_pages_per_branch
            /\ \A k \in DOMAIN reqs : k > 1 =>
                \/ reqs[k][1] = reqs[k - 1][1] /\ reqs[k][2] = reqs[k - 1][2] + 1
                \/ reqs[k][1] > reqs[k - 1][1] /\ reqs[k][2] = 1
            /\ r.total_files = Cardinality(BlobPaths(args, SeqToSet(reqs)))
            /\ r.total_files
                 <= branches_limit * max_pages_per_branch * tree_per_page
            /\ r.total_files =
                 Cardinality(BlobPaths(args,
                     {q \in (1..Min(args.n, branches_limit))
                              \X (1..max_pages_per_branch) :
                          q \in SeqToSet(reqs)}))

\* 12 branches of 6 full pages of files of their own: the 5000 files of the
\* first 5 pages of the first 10 branches counted
C20_Witness ==
    /\ BranchStatsReturned
    /\ args.n = branches_limit + 2
    /\ args.pages = max_pages_per_branch + 1
    /\ args.width = tree_per_page
    /\ ~args.shared
    /\ Len(Val(ret).tree_requests) = branches_limit * max_pages_per_branch
    /\ Val(ret).total_files
         = branches_limit * max_pages_per_branch * tree_per_page

----------------------------------------------------------------------------
(* Claims about the large files *)

\* the extensions of the paths of the servers that the list holds, whatever
\* the case
ListedExtensions == {".ZIP", ".Jar"}

\* the size lookup answered 200 with a size of more than 100 * 1024 * 1024
SaysLarge(file_response) ==
    /\ file_response.exc = "none"
    /\ file_response.status_code = 200
    /\ ~IsNone(file_response.size)
    /\ Val(file_response.size) > 104857600

\* the blobs of non-empty path on the tree pages in requests, with their
\* branch
ScannedBlobs(sv, requests) ==
    UNION {{<<q[1], BranchTreePage(sv, q[1], q[2]).items[i].path>> :
                i \in {j \in DOMAIN BranchTreePage(sv, q[1], q[2]).items :
                          LET item == BranchTreePage(sv, q[1], q[2]).items[j]
                          IN  item.type = "blob" /\ item.path # <<>>}} :
            q \in requests}

\* C21: has_large_file is true iff some blob of a scanned page has a path
\* whose extension is in the list (whatever its case) and whose size lookup
\* answers 200 with a size strictly above 100*1024*1024. A file of another
\* extension is never looked up and never sets the flag; a lookup that
\* raises, answers another status, an unreadable size or exactly the
\* threshold leaves the flag as it was; a flag set is kept when the scan of
\* a later branch raises.
C21_LargeFileFlag ==
    BranchStatsReturned =>
        LET r == Val(ret)
            scanned == ScannedBlobs(args, SeqToSet(r.tree_requests))
        IN  /\ r.has_large_file <=>
                 \E f \in scanned :
                    /\ f[2][2] \in ListedExtensions
                    /\ SaysLarge(FileHead(args, f[2], f[1]))
            /\ \A k \in DOMAIN r.file_lookups :
                 /\ r.file_lookups[k][2][2] \in ListedExtensions
                 /\ r.file_lookups[k] \in scanned
            /\ args.ext = ".txt" =>
                 (r.file_lookups = <<>> /\ ~r.has_large_file)
            /\ args.sizes \in {"raise", "404", "unreadable", "threshold"} =>
                 ~r.has_large_file

\* the large file is in branch 2, whose second page raises: the flag is set
\* and branch 3 was scanned
C21_Witness ==
    /\ BranchStatsReturned
    /\ args.n = 3
    /\ args.ext = ".ZIP"
    /\ args.sizes = "large from branch 2"
    /\ args.fault = [branch |-> 2, page |-> 2, kind |-> "raise"]
    /\ args.next = "honest"
    /\ Val(ret).has_large_file
    /\ \E k \in DOMAIN Val(ret).tree_requests :
          Val(ret).tree_requests[k] = <<3, 1>>

\* the same server, no file of which is large
NoneLarge == [args EXCEPT !.sizes = "404"]

\* C22: once a size lookup has found a large file, no other size lookup is
\* sent for any later file, page or branch: the lookup that finds it is the
\* last one. The tree pages requested and the paths counted are those of the
\* scan that finds no large file.
C22_NoLookupAfterLargeFile ==
    BranchStatsReturned =>
        LET r == Val(ret)
        IN  /\ \A k \in DOMAIN r.file_lookups :
                 SaysLarge(FileHead(args, r.file_lookups[k][2],
                                    r.file_lookups[k][1]))
                    => k = Len(r.file_lookups)
            /\ r.has_large_file =>
                 /\ r.file_lookups # <<>>
                 /\ LET last == r.file_lookups[Len(r.file_lookups)]
                    IN  SaysLarge(FileHead(args, last[2], last[1]))
            /\ r.tree_requests
                 = get_all_branches_file_stats(NoneLarge).tree_requests
            /\ r.total_files
                 = get_all_branches_file_stats(NoneLarge).total_files

\* the first file of branch 2 is large: the third file of its page and the
\* files of branch 3 have the extension and are not looked up, and branch 3
\* is scanned
C22_Witness ==
    /\ BranchStatsReturned
    /\ args.n = 3
    /\ args.pages = 2
    /\ args.ext = ".ZIP"
    /\ ~args.blank
    /\ ~args.shared
    /\ args.sizes = "large from branch 2"
    /\ args.fault = NoBranchFault
    /\ args.next = "honest"
    /\ Val(ret).has_large_file
    /\ Len(Val(ret).file_lookups) = 5
    /\ Val(ret).file_lookups[5] = <<2, <<<<2, 1, 1>>, ".ZIP">>>>
    /\ Len(Val(ret).tree_requests) = 6

----------------------------------------------------------------------------
(* Claims about check_for_pipeline_config *)

PipelineReturned == call = "check_for_pipeline_config" /\ ~IsNone(ret)

\* the project answered, with a default branch
Probing ==
    /\ args.project.exc = "none"
    /\ args.project.status_code = 200
    /\ Get(Val(args.project.body), "default_branch", "") # ""

\* the files whose probe answers 200
Present ==
    {k \in DOMAIN args.probes :
        args.probes[k].exc = "none" /\ args.probes[k].status_code = 200}

\* C23: check_for_pipeline_config probes the six file names in their order;
\* it returns True at the first probe that answers 200 and sends no probe
\* after it, and goes on to the next name when a probe raises or answers
\* another status; it returns False iff no probe answered 200, which includes
\* the project request failing and the project having no default branch (no
\* probe is sent then).
C23_PipelineProbes ==
    PipelineReturned =>
        LET r == Val(ret)
            first == CHOOSE k \in Present : \A j \in Present : k <= j
        IN  /\ Len(pipeline_files) = 6
            /\ ~Probing => (~r.value /\ r.probed = <<>>)
            /\ (Probing /\ Present = {}) =>
                 (~r.value /\ r.probed = pipeline_files)
            /\ (Probing /\ Present # {}) =>
                 (r.value /\ r.probed = SubSeq(pipeline_files, 1, first))
            /\ ~r.value <=> (~Probing \/ Present = {})

\* the first probe raises, the second answers 404, the third 200, and the
\* fourth would answer 200 too: True, after three probes
C23_Witness ==
    /\ PipelineReturned
    /\ Probing
    /\ args.probes[1].exc = "Timeout"
    /\ args.probes[2].status_code = 404
    /\ Present = {3, 4}
    /\ Val(ret).value
    /\ Val(ret).probed = <<".gitlab-ci.yml", ".gitlab-ci.yaml", "gitlab-ci.yml">>

----------------------------------------------------------------------------
(* Claims about the object count *)

\* process_project has built a record from lookups whose project request
\* answered
ObjectsCounted ==
    /\ call = "process_project"
    /\ ~IsNone(ret)
    /\ ~Val(ret).raised
    /\ args.a \in ObjectAnswers

\* commit_count of the statistics of the project request
CommitCount ==
    Get(Get(Val(args.a.repo.project.body), "statistics", <<>>),
        "commit_count", 0)

\* X-Total of a HEAD that answered 200 with it, else 0
TotalOf(head) ==
    IF head.status_code = 200 /\ ~IsNone(head.x_total)
    THEN Val(head.x_total) ELSE 0

\* neither the tags nor the merge requests request raised
NoException ==
    args.a.repo.tags.exc = "none" /\ args.a.repo.mrs.exc = "none"

\* commits + branches + tags + files + max(files div 10, 1) + merge requests
Estimate(files) ==
    CommitCount + Val(ret).record.branch_count + TotalOf(args.a.repo.tags)
    + files + (IF files \div 10 > 1 THEN files \div 10 ELSE 1)
    + TotalOf(args.a.repo.mrs)

\* C24 as claimed: the object count is made of the file count of the default
\* branch, the file_count of the record.
C24_FromDefaultBranchFiles ==
    (ObjectsCounted /\ NoException) =>
        Val(ret).record.total_objects = Estimate(Val(ret).record.file_count)

\* C24 amended: the object count is commit count + branch count + tag count
\* + files + max(files div 10, 1) + merge-request count, where files is the
\* count of unique files over the scanned branches (all_branches_file_count
\* of the record, also when it is 0), not the file count of the default
\* branch; tag and merge-request counts are 0 when their header is
\* unavailable; computed without exception it is at least 1. When the tags or
\* the merge requests request raises it is commit count + default-branch
\* file count.
C24_FromAllBranchesFiles ==
    ObjectsCounted =>
        LET r == Val(ret).record
        IN  /\ NoException =>
                /\ r.total_objects = Estimate(r.all_branches_file_count)
                /\ r.total_objects >= 1
            /\ ~NoException => r.total_objects = CommitCount + r.file_count

\* 7 commits, 2 branches, 4 tags, 31 files over the branches (25 on the
\* default branch), 5 merge requests: 7 + 2 + 4 + 31 + 3 + 5
C24_Witness ==
    /\ ObjectsCounted
    /\ NoException
    /\ CommitCount = 7
    /\ Val(ret).record.branch_count = 2
    /\ Val(ret).record.file_count = 25
    /\ Val(ret).record.all_branches_file_count = 31
    /\ TotalOf(args.a.repo.tags) = 4
    /\ TotalOf(args.a.repo.mrs) = 5
    /\ Val(ret).record.total_objects = 52

----------------------------------------------------------------------------
(* Claims about the discovery of the projects *)

\* the ids of a sequence of projects or records
Ids(ps) == [i \in 1..Len(ps) |-> ps[i].id]

\* the discovered projects tagged with the path of group n
TaggedFrom(n) ==
    SelectSeq(all_projects,
              LAMBDA p : p._group_path = Val(groups)[n].full_path)

\* the listing of some group has failed
SomeListingFailed == \E n \in 1..Len(listed) : IsNone(listed[n])

\* C25: a group whose project listing fails contributes no project, and the
\* run goes on: the projects of every group whose listing succeeds are
\* discovered; those the filter keeps are selected, each of them gets its
\* record or its entry in the failed list, and the records are written; the
\* run does not end with exit code 1 for a failed listing.
C25_FailedListingSkipsGroup ==
    (script = "details" /\ ~IsNone(groups) /\ pc # "fetch_groups") =>
        /\ \A n \in 1..Len(listed) :
            Ids(TaggedFrom(n)) = IF IsNone(listed[n]) THEN <<>>
                                 ELSE Ids(Val(listed[n]))
        /\ Len(listed) >= 1 => exitCode # Some(1)
        /\ pc \in {"aggregate", "finished"} =>
            \A n \in 1..Len(listed) : ~IsNone(listed[n]) =>
                \A k \in 1..Len(Val(listed[n])) :
                    should_process_project(Val(listed[n])[k], project_filter)
                        => \E i \in 1..Len(projects) :
                              /\ projects[i].id = Val(listed[n])[k].id
                              /\ projects[i]._group_path
                                    = Val(groups)[n].full_path
        /\ pc = "finished" =>
            /\ Len(stats) + Len(failed) = Len(projects)
            /\ stats # <<>> => Ids(Val(outputFile).rows) = Ids(stats)

\* the listing of the second of two groups failed after the first gave a
\* project: the run ended with exit code 0 and wrote the record of that
\* project
C25_Witness ==
    /\ script = "details"
    /\ pc = "finished"
    /\ Len(listed) = 2
    /\ ~IsNone(listed[1])
    /\ Len(Val(listed[1])) >= 1
    /\ IsNone(listed[2])
    /\ exitCode = Some(0)
    /\ writes = 1
    /\ Len(stats) >= 1
    /\ Ids(Val(outputFile).rows) = Ids(stats)
    /\ stats[1].group_path = Val(groups)[1].full_path

----------------------------------------------------------------------------
(* Claims about the selection of the projects *)

\* the filter has been applied and the run goes on or has ended
SelectionMade ==
    /\ script = "details"
    /\ pc \in {"aggregate", "finished"} \/ (pc = "exited" /\ gi >= 1)

\* the project is named by the allow-list, by its name or by its path
Named(p) == p.name \in Val(project_filter) \/ p.path \in Val(project_filter)

\* C26: without filter every discovered project is selected for
\* aggregation; with an allow-list a discovered project is selected iff its
\* name or its path is in the list; the selected projects are in discovery
\* order, and the loop goes through each of them.
C26_SelectedIffNamed ==
    SelectionMade =>
        /\ IsNone(project_filter) => projects = all_projects
        /\ ~IsNone(project_filter) =>
            /\ projects = SelectSeq(all_projects, Named)
            /\ \A j \in 1..Len(all_projects) :
                 (\E i \in 1..Len(projects) : projects[i] = all_projects[j])
                    <=> Named(all_projects[j])
        /\ pc = "finished" =>
            /\ idx = Len(projects)
            /\ Len(stats) + Len(failed) = Len(projects)

\* of three discovered projects the list names the second by its path and
\* the third by its name: these two are selected, in this order, and gone
\* through; the first is left out
C26_Witness ==
    /\ script = "details"
    /\ pc = "finished"
    /\ ~IsNone(project_filter)
    /\ Len(all_projects) = 3
    /\ projects = <<all_projects[2], all_projects[3]>>
    /\ all_projects[2].name \notin Val(project_filter)
    /\ all_projects[2].path \in Val(project_filter)
    /\ all_projects[3].name \in Val(project_filter)
    /\ idx = 2

----------------------------------------------------------------------------
(* Claims about load_project_filter *)

NotBlank(t) == t # " "

\* a cell without its surrounding blanks
Trimmed(cell) == SelectSeq(cell, NotBlank)

\* the non-empty trimmed 'Name' values of the rows whose trimmed
\* 'Migrate Repo' value is a configured filter value
NamesToMigrate ==
    {n \in {Trimmed(csvFile.rows[i].name) : i \in
                {j \in 1..Len(csvFile.rows) :
                    \E k \in 1..Len(MIGRATE_REPO_VALUES) :
                        Trimmed(csvFile.rows[j].migrate)
                            = MIGRATE_REPO_VALUES[k]}} :
        n # <<>>}

NoFilterCause ==
    \/ IsNone(PROJECT_LIST_FILE)
    \/ Val(PROJECT_LIST_FILE) = <<>>
    \/ csvFile.state \in {"missing", "unreadable"}
    \/ "Migrate Repo" \notin csvFile.fieldnames
    \/ "Name" \notin csvFile.fieldnames
    \/ NamesToMigrate = {}

\* C27: load_project_filter returns None or a non-empty set, and that set is
\* exactly the set of non-empty trimmed 'Name' values of the rows whose
\* trimmed 'Migrate Repo' value is a configured filter value; no file
\* configured, a missing file, a missing required column, a read error and
\* zero matching rows all give None, never an empty set.
C27_FilterIsNoneOrExactNames ==
    pc # "filter: load" =>
        /\ \/ IsNone(project_filter)
           \/ /\ Val(project_filter) # {}
              /\ Val(project_filter) = NamesToMigrate
        /\ NoFilterCause => IsNone(project_filter)

\* a file of two rows: a padded name under a padded 'Migrate Repo' value,
\* kept trimmed, and a row that is skipped for its 'Migrate Repo' value
C27_Witness ==
    /\ pc = "filter: apply"
    /\ csvFile.state = "csv"
    /\ Len(csvFile.rows) = 2
    /\ csvFile.rows[1] = CsvRow(<<" ", "Migrate", " ">>, <<" ", "c">>)
    /\ csvFile.rows[2] = CsvRow(<<"Skip">>, <<"a">>)
    /\ MIGRATE_REPO_VALUES = <<<<"Migrate">>>>
    /\ project_filter = Some({<<"c">>})

----------------------------------------------------------------------------
(* Claims about the records of the project report *)

\* no value occurs at two positions of q
Distinct(q) == \A i, j \in 1..Len(q) : q[i] = q[j] => i = j

\* C28: no project appears twice in the project report: once the run over
\* all groups has ended and written its report, every project id occurs in at
\* most one record of the output file.
C28_NoProjectTwice ==
    (script = "details" /\ pc = "finished" /\ writes = 1) =>
        Distinct(Ids(Val(outputFile).rows))

\* a parent group and its subgroup both list the same project: the report
\* holds two records of it, one tagged with each group
C28_Witness ==
    /\ script = "details"
    /\ pc = "finished"
    /\ writes = 1
    /\ IsNone(project_filter)
    /\ Len(Val(groups)) = 2
    /\ Val(groups)[2].full_path = <<"eng/web">>
    /\ \E i, j \in 1..Len(all_projects) :
          /\ i < j
          /\ all_projects[i].id = all_projects[j].id
          /\ all_projects[i]._group_path = Val(groups)[1].full_path
          /\ all_projects[j]._group_path = Val(groups)[2].full_path
    /\ \E i, j \in 1..Len(Val(outputFile).rows) :
          /\ i < j
          /\ Val(outputFile).rows[i].id = Val(outputFile).rows[j].id

----------------------------------------------------------------------------
(* Claims about the files kept when the pagination of the tree stops *)

\* the requested pages of the tree that were fetched: answered with 200
FetchedPages(t, requests) ==
    {p \in SeqToSet(requests) :
        /\ TreePage(t, p).exc = "none"
        /\ TreePage(t, p).status_code = 200}

\* C29: for a repository of normal size, get_repository_file_count returns
\* the number of blobs on all the tree pages fetched before the pagination
\* stopped, whatever made it stop (an empty page, no next-page header, a
\* status other than 200 on a later page, a timeout, the bound of 50 pages):
\* the files counted on earlier pages are never discarded.
C29_CountedFilesAreKept ==
    (FileCountReturned /\ ~IsLarge) =>
        Val(ret).value
            = BlobsOn(args.tree, FetchedPages(args.tree, Val(ret).requests))

\* page 1 gave two blobs and page 2 answered 404: 0 is returned
C29_Witness ==
    /\ FileCountReturned
    /\ ~IsLarge
    /\ args.tree.odd = <<Blob, Blob>>
    /\ args.tree.full >= 2
    /\ args.tree.fault = [at |-> 2, kind |-> "status", status |-> 404]
    /\ Val(ret).requests = <<1, 2>>
    /\ FetchedPages(args.tree, Val(ret).requests) = {1}
    /\ Val(ret).value = 0

----------------------------------------------------------------------------
(* Claims about the number of requests of one aggregation *)

\* the entries of type blob and non-empty path on the tree pages in requests
ScannedEntries(sv, requests) ==
    UNION {{<<q, i>> :
                i \in {j \in DOMAIN BranchTreePage(sv, q[1], q[2]).items :
                          LET item == BranchTreePage(sv, q[1], q[2]).items[j]
                          IN  item.type = "blob" /\ item.path # <<>>}} :
            q \in requests}

\* C30: each auxiliary loop of the aggregation of one project sends a
\* bounded number of requests whatever the server answers, also when every
\* page carries a next-page header: at most 50 pages of the default-branch
\* tree (after at most 2 probes), at most 5 tree pages for each of at most 10
\* branches, at most 6 pipeline probes, and at most one size lookup for each
\* scanned file.
C30_BoundedRequests ==
    /\ (call = "get_repository_file_count" /\ ~IsNone(ret)) =>
          /\ Len(Val(ret).requests) <= max_pages
          /\ Len(Val(ret).heads) <= 2
    /\ (call = "get_all_branches_file_stats" /\ ~IsNone(ret)) =>
          LET reqs == Val(ret).tree_requests
              sized == Val(ret).file_lookups
          IN  /\ Len(reqs) <= branches_limit * max_pages_per_branch
              /\ Cardinality({reqs[k][1] : k \in DOMAIN reqs})
                    <= branches_limit
              /\ \A k \in DOMAIN reqs :
                    Cardinality({m \in DOMAIN reqs : reqs[m][1] = reqs[k][1]})
                        <= max_pages_per_branch
              /\ Distinct(reqs)
              /\ Len(sized)
                    <= Cardinality(ScannedEntries(args, SeqToSet(reqs)))
              /\ SeqToSet(sized) \subseteq ScannedBlobs(args, SeqToSet(reqs))
    /\ (call = "check_for_pipeline_config" /\ ~IsNone(ret)) =>
          /\ Len(Val(ret).probed) <= Len(pipeline_files)
          /\ Len(pipeline_files) = 6

\* a tree of more than 50 pages whose every page carries a next-page header:
\* the count returned after 50 requests
C30_Witness ==
    /\ call = "get_repository_file_count"
    /\ ~IsNone(ret)
    /\ args.tree.next = "always"
    /\ args.tree.full > max_pages
    /\ Len(Val(ret).requests) = max_pages
    /\ Val(ret).value > 0

====
